---------------------------- MODULE Spec2Model ----------------------------
(***************************************************************************)
(* Model of bulk_create.py (ztb-site-automation): the site provisioning    *)
(* orchestrator main(), the cluster resolver                               *)
(* resolve_gateway_ids_and_cluster, the 401 refresh wrapper                *)
(* _request_with_auto_refresh and the VRRP builder build_vrrp_payload.     *)
(*                                                                         *)
(* Python values are represented as follows.                               *)
(*   Optional[int]   a sequence of length <= 1: << >> is None, <<n>> is n  *)
(*   Optional[str]   a string, "" standing for None and for ""             *)
(*                   (the code only tests their truthiness)                *)
(*   "a,b" strings   the sequence <<"a","b">> of the comma-joined parts    *)
(*   str.strip(), str.lower(), str.split(".")  tables over the finite      *)
(*                   universe of strings the model draws its inputs from   *)
(***************************************************************************)
EXTENDS Integers, Sequences, FiniteSets, TLC

VARIABLES
    pc,            \* main(): position of the orchestrator
    dry_run,       \* main(): args.dry_run
    csv,           \* main(): the post field of each row of sites.csv, in file order
    nrows,         \* main(): len(todo)
    idx,           \* main(): index of the row the for-loop is at (1-based)
    row,           \* main(): r, the row being processed
    ok,            \* main(): ok counter
    fail,          \* main(): fail counter
    site_id,       \* main(): local site_id (function-scoped, outlives an iteration)
    gateways_str,  \* main(): local gateways_str
    cluster_id,    \* main(): local cluster_id
    templates,     \* TEMPLATES: _loaded, the catalog indexed, the catalog GETs made
                   \* in all (fetches) and by _load (loads)
    dns_i,         \* main(): i, the counter of the site-id lookup loop
    events,        \* requests and stage events of the row being processed, oldest first
    vl,            \* process_vlans_for_site(): its locals
    rs,            \* resolve_gateway_ids_and_cluster(): its locals and result
    rq,            \* _request_with_auto_refresh(): the session and the call in progress
    vr             \* build_vrrp_payload(): its arguments and result

\* the state of main() and of the functions only main() drives
mainVars == <<pc, dry_run, csv, nrows, idx, row, ok, fail, site_id, gateways_str,
              cluster_id, templates, dns_i, vl>>

vars == <<mainVars, events, rs, rq, vr>>

----------------------------------------------------------------------------
(* Bounds of the model *)

\* rows marked post=1 in one run
MaxRows == 2
\* largest retries argument tried on resolve_gateway_ids_and_cluster
MaxRetries == 3
\* API calls made through the request wrapper in one run
MaxCalls == 3

(* Program constants *)

POLL_RETRIES == 12
DNS_LOOKUPS == 10

----------------------------------------------------------------------------
(* Python values *)

None == << >>
Some(n) == <<n>>
\* truthiness of an Optional[int]
TruthyInt(o) == o # None /\ o[1] # 0
Max(a, b) == IF a >= b THEN a ELSE b

RECURSIVE SeqToSet(_)
SeqToSet(s) == IF s = << >> THEN {} ELSE {Head(s)} \cup SeqToSet(Tail(s))

\* str.strip().lower() on the site, template and VLAN names of the model
StripLower(s) ==
    CASE s = "siteA"   -> "sitea"
      [] s = " SiteA " -> "sitea"
      [] s = "siteA-2" -> "sitea-2"
      [] s = "siteB"   -> "siteb"
      [] s = "SITEB"   -> "siteb"
      [] s = "TplA"    -> "tpla"
      [] s = "Users"   -> "users"
      [] s = "tpla "   -> "tpla"
      [] OTHER         -> s


----------------------------------------------------------------------------
(* The site/gateway lookup service, as find_site_row_by_name sees it *)

\* the backend's identifier of a site, by normalised site name
SiteIdOf(n) ==
    CASE n = "sitea" -> "idA"
      [] n = "siteb" -> "idB"
      [] OTHER       -> "idX"

\* cluster ids: a create response's hint, a row's cluster_info.cluster_id
ClusterVals == {None, Some(0), Some(7), Some(8)}

\* a row's "gateways": the gateway_id of each entry, "" for an entry without one
GatewayLists == {<< >>, <<"">>, <<"g1">>, <<"g1", "g2">>, <<"g1", "", "g2">>}

\* the names under which the backend may list the site called s
NameVariants(s) ==
    CASE s = "siteA" -> {"siteA", " SiteA "}
      [] s = "siteB" -> {"siteB", "SITEB"}
      [] OTHER       -> {s}

\* a row of another site that the search returns because its name contains s
DecoyRow(s) ==
    [name |-> "siteA-2", gateways |-> <<"g9">>, cluster |-> Some(9),
     ci_site_id |-> "idX", site_id |-> "idX", id |-> "idX"]

\* rows of the site called s; gws, cls and shapes bound the fields a caller reads
SiteRows(s, gws, cls, shapes) ==
    { [name |-> n, gateways |-> g, cluster |-> c,
       ci_site_id |-> IF sh[1] THEN SiteIdOf(StripLower(s)) ELSE "",
       site_id    |-> IF sh[2] THEN SiteIdOf(StripLower(s)) ELSE "",
       id         |-> IF sh[3] THEN SiteIdOf(StripLower(s)) ELSE ""] :
      n \in NameVariants(s), g \in gws, c \in cls, sh \in shapes }

\* the "rows" of a search response: none, the site's row, a decoy, or both
RowLists(s, gws, cls, shapes) ==
    {<< >>, <<DecoyRow(s)>>}
    \cup { <<m>> : m \in SiteRows(s, gws, cls, shapes) }
    \cup { <<DecoyRow(s), m>> : m \in SiteRows(s, gws, cls, shapes) }

IdShapes == {<<FALSE, FALSE, FALSE>>, <<TRUE, FALSE, FALSE>>,
             <<FALSE, TRUE, FALSE>>, <<FALSE, FALSE, TRUE>>, <<TRUE, TRUE, TRUE>>}

\* responses to a lookup made by the cluster resolver (it reads gateways and cluster)
ResolveResponses(s) == RowLists(s, GatewayLists, ClusterVals, {<<TRUE, TRUE, TRUE>>})

\* responses to a lookup made by main() for the site id (it reads the id fields)
SiteIdResponses(s) == RowLists(s, {<<"g1">>}, {Some(7)}, IdShapes)

\* a lookup that takes the first row the search returns
FindSiteRowFirst(rows, site_name) == IF rows = << >> THEN << >> ELSE <<Head(rows)>>

RECURSIVE FindSiteRowByName(_, _)
\* find_site_row_by_name, after the GET: the first row whose name equals
\* site_name after strip().lower(), as an Optional row
FindSiteRowByName(rows, site_name) ==
    IF rows = << >> THEN << >>
    ELSE IF StripLower(Head(rows).name) = StripLower(site_name) THEN <<Head(rows)>>
    ELSE FindSiteRowByName(Tail(rows), site_name)

----------------------------------------------------------------------------
(* resolve_gateway_ids_and_cluster *)

\* ids = [g.get("gateway_id") for g in gws if g.get("gateway_id")], comma-joined
JoinGatewayIds(gws) == SelectSeq(gws, LAMBDA g : g # "")

\* a loop body that returns as soon as gateway ids are seen, cluster id or not
ResolveOnceGatewaysOnly(found, wanted_cluster) ==
    LET gw_ids_str == IF found = << >> THEN << >> ELSE JoinGatewayIds(found[1].gateways)
    IN  IF gw_ids_str # << >>
        THEN [done |-> TRUE, gw |-> gw_ids_str, cl |-> wanted_cluster]
        ELSE [done |-> FALSE, gw |-> << >>, cl |-> None]

\* one pass of the loop body after the lookup: the values of gw_ids_str and cl_id
\* and whether one of the two return statements is taken
ResolveOnce(found, wanted_cluster) ==
    LET gw_ids_str == IF found = << >> THEN << >> ELSE JoinGatewayIds(found[1].gateways)
        found_cluster == IF found = << >> THEN None ELSE found[1].cluster
        cl_id == IF ~TruthyInt(wanted_cluster) /\ TruthyInt(found_cluster)
                 THEN found_cluster ELSE wanted_cluster
    IN  IF TruthyInt(wanted_cluster) /\ gw_ids_str # << >>
        THEN [done |-> TRUE, gw |-> gw_ids_str, cl |-> wanted_cluster]
        ELSE IF gw_ids_str # << >> /\ TruthyInt(cl_id)
        THEN [done |-> TRUE, gw |-> gw_ids_str, cl |-> cl_id]
        ELSE [done |-> FALSE, gw |-> << >>, cl |-> None]

\* the return after the loop: (None, wanted_cluster if wanted_cluster else None)
ResolveExhaustedResult(wanted_cluster) ==
    [gw |-> << >>, cl |-> IF TruthyInt(wanted_cluster) THEN wanted_cluster ELSE None]

\* a loop that makes one lookup more
ResolveRoundsPlusOne(retries) == Max(1, retries) + 1

\* range(max(1, retries))
ResolveRounds(retries) == Max(1, retries)

RsIdle ==
    [pc |-> "idle", site |-> "", wanted |-> None, retries |-> 0,
     attempts |-> 0, sleeps |-> 0, gw |-> << >>, cl |-> None, ready_seen |-> FALSE,
     found_cluster |-> None, rows_len |-> 0]

RsCall(site, wanted, retries) ==
    [pc |-> "loop", site |-> site, wanted |-> wanted, retries |-> retries,
     attempts |-> 0, sleeps |-> 0, gw |-> << >>, cl |-> None, ready_seen |-> FALSE,
     found_cluster |-> None, rows_len |-> 0]

\* line 428: found_cluster = ci.get("cluster_id"), None without a row; kept in
\* rs.found_cluster for the lookup the call returned on (the local is dead
\* once the loop sleeps); rs.rows_len is the number of rows that lookup's
\* search response held (line 375)
FoundCluster(found) == IF found = << >> THEN None ELSE found[1].cluster

\* whether a lookup showed the site with gateway ids while a cluster id is known
\* (the hint, or the row's own); recorded in rs.ready_seen for the last lookup
ReadySeen(found, wanted_cluster) ==
    /\ found # << >>
    /\ \E j \in 1..Len(found[1].gateways) : found[1].gateways[j] # ""
    /\ (TruthyInt(wanted_cluster) \/ TruthyInt(found[1].cluster))

\* an entry of the history: a request or a stage outcome, whether it succeeded,
\* and the site id or VLAN id it carried
Event(k, good, a) == [k |-> k, ok |-> good, a |-> a]
\* an entry that carries a cluster id
EventC(k, good, cl) == [k |-> k, ok |-> good, cl |-> cl]

\* the history with event e added; the lookups of one polling loop that ended
\* the same way are recorded once
Log(es, e) ==
    IF es # << >> /\ e.k \in {"lookup", "dns_lookup"} /\ es[Len(es)] = e
    THEN es ELSE Append(es, e)

\* one iteration of the for loop: the lookup, then return or sleep
ResolveAttempt ==
    /\ rs.pc = "loop"
    /\ rs.attempts < ResolveRounds(rs.retries)
    /\ \/ \* the GET fails: get_json raises RuntimeError out of the resolver
          /\ rs' = [rs EXCEPT !.pc = "raised", !.attempts = @ + 1,
                              !.ready_seen = FALSE]
          /\ events' = Log(events, Event("lookup", FALSE, ""))
       \/ \E rows \in ResolveResponses(rs.site) :
            LET found == FindSiteRowByName(rows, rs.site)
                res   == ResolveOnce(found, rs.wanted)
                seen  == ReadySeen(found, rs.wanted)
            IN  /\ rs' = IF res.done
                         THEN [rs EXCEPT !.pc = "returned", !.attempts = @ + 1,
                                         !.gw = res.gw, !.cl = res.cl,
                                         !.ready_seen = seen,
                                         !.found_cluster = FoundCluster(found),
                                         !.rows_len = Len(rows)]
                         ELSE [rs EXCEPT !.attempts = @ + 1, !.sleeps = @ + 1,
                                         !.ready_seen = seen]
                /\ events' = Log(events, Event("lookup", TRUE, ""))
    /\ UNCHANGED <<mainVars, rq, vr>>

\* the loop ran out: return not-ready
ResolveExhausted ==
    /\ rs.pc = "loop"
    /\ rs.attempts >= ResolveRounds(rs.retries)
    /\ rs' = [rs EXCEPT !.pc = "exhausted",
                        !.gw = ResolveExhaustedResult(rs.wanted).gw,
                        !.cl = ResolveExhaustedResult(rs.wanted).cl]
    /\ events' = Append(events, Event("poll_exhausted", FALSE, ""))
    /\ UNCHANGED <<mainVars, rq, vr>>

----------------------------------------------------------------------------
(* Interface names: strings of the CSVs and of the discovery response *)

\* _clean_iface, and the (.. or "").strip().lower() of lines 480, 483, 592, 621
CleanIface(x) ==
    CASE x = "GE3 "  -> "ge3"
      [] x = " Ge5"  -> "ge5"
      [] x = "GE7"   -> "ge7"
      [] x = "LAN"   -> "lan"
      [] x = " HA "  -> "ha"
      [] x = "MGMT"  -> "mgmt"
      [] OTHER       -> x

\* x.split(".", 1)[0] of an already cleaned name; "." in x is BeforeDot(x) # x
BeforeDot(x) ==
    CASE x = "ge3.100" -> "ge3"
      [] x = "ge5.20"  -> "ge5"
      [] x = "ge7.30"  -> "ge7"
      [] OTHER         -> x

RECURSIVE UniquePreserveFrom(_, _)
UniquePreserveFrom(seq, out) ==
    IF seq = << >> THEN out
    ELSE LET c == CleanIface(Head(seq))
         IN  IF c = "" \/ c \in SeqToSet(out)
             THEN UniquePreserveFrom(Tail(seq), out)
             ELSE UniquePreserveFrom(Tail(seq), Append(out, c))

\* a _unique_preserve that keeps repeated names
UniquePreserveKeepsAll(seq) ==
    SelectSeq([i \in 1..Len(seq) |-> CleanIface(seq[i])], LAMBDA s : s # "")

\* _unique_preserve
UniquePreserve(seq) == UniquePreserveFrom(seq, << >>)

\* _collect_wan_ifaces_from_row: row.wan_cols holds the six recognised columns,
\* in the order of the candidates list
CollectWanIfacesFromRow(r) ==
    UniquePreserve(SelectSeq([i \in 1..Len(r.wan_cols) |-> CleanIface(r.wan_cols[i])],
                             LAMBDA v : v # ""))

RECURSIVE CollectLanFrom(_, _, _)
CollectLanFrom(vlans, ex, found) ==
    IF vlans = << >> THEN found
    ELSE LET iface0 == CleanIface(Head(vlans).interface[1])
             \* iface.split(",")[0].strip(), then the part before the first "."
             iface  == BeforeDot(iface0)
         IN  IF iface0 = "" \/ iface = "" \/ iface = "mgmt" \/ iface \in ex
                \/ iface \in SeqToSet(found)
             THEN CollectLanFrom(Tail(vlans), ex, found)
             ELSE CollectLanFrom(Tail(vlans), ex, Append(found, iface))

\* a build that takes no LAN interface from the VLAN definitions
CollectLanNone(vlans, exclude) == << >>

\* _collect_lan_ifaces_from_vlans; a VLAN's interface is the sequence of its
\* comma-separated parts
CollectLanIfacesFromVlans(vlans, exclude) ==
    CollectLanFrom(vlans, {CleanIface(x) : x \in SeqToSet(exclude)}, << >>)

----------------------------------------------------------------------------
(* discover_iface_inventory *)

\* gw_ids / keys: the non-empty parts of gateways_str
GatewayKeys(gateways) == SelectSeq(gateways, LAMBDA g : g # "")

\* the interfaces of one response entry whose cleaned type is in types, cleaned
IfaceNamesOfType(gw, types) ==
    { CleanIface(gw.interfaces[i].name) : i \in
        { j \in 1..Len(gw.interfaces) :
            /\ CleanIface(gw.interfaces[j].name) # ""
            /\ CleanIface(gw.interfaces[j].interface_type) \in types } }

RECURSIVE LastHaName(_)
\* ha_link_map[gwid] = name is assigned for every ha interface: the last one stays
LastHaName(itfs) ==
    IF itfs = << >> THEN ""
    ELSE LET e == itfs[Len(itfs)]
         IN  IF CleanIface(e.name) # "" /\ CleanIface(e.interface_type) = "ha"
             THEN CleanIface(e.name)
             ELSE LastHaName(SubSeq(itfs, 1, Len(itfs) - 1))

\* the response entries the loop does not skip
MatchingItems(items, gateways) ==
    SelectSeq(items, LAMBDA gw : gw.gateway_id # ""
                                 /\ gw.gateway_id \in SeqToSet(GatewayKeys(gateways)))

RECURSIVE HaLinkMapFrom(_, _)
HaLinkMapFrom(items, m) ==
    IF items = << >> THEN m
    ELSE LET gw == Head(items)
             h  == LastHaName(gw.interfaces)
         IN  HaLinkMapFrom(Tail(items),
                 IF h = "" THEN m
                 ELSE [k \in DOMAIN m \cup {gw.gateway_id} |->
                          IF k = gw.gateway_id THEN h ELSE m[k]])

EmptyMap == [k \in {} |-> ""]

\* a snapshot that keeps the names some peer reports
CommonTrackablesUnion(matching) ==
    UNION { IfaceNamesOfType(matching[i], {"lan", "wan"}) : i \in 1..Len(matching) }

\* set.intersection(*per_gw_trackables) if per_gw_trackables else set()
CommonTrackables(matching) ==
    IF matching = << >> THEN {}
    ELSE { n \in IfaceNamesOfType(matching[1], {"lan", "wan"}) :
             \A i \in 1..Len(matching) :
                n \in IfaceNamesOfType(matching[i], {"lan", "wan"}) }

\* discover_iface_inventory, after the GET returned items
DiscoverIfaceInventory(items, gateways) ==
    LET matching == MatchingItems(items, gateways)
    IN  [ha_link_map |-> HaLinkMapFrom(matching, EmptyMap),
         mgmt_names  |-> UNION { IfaceNamesOfType(matching[i], {"management"}) :
                                  i \in 1..Len(matching) },
         common_trackables |-> CommonTrackables(matching)]

----------------------------------------------------------------------------
(* build_vrrp_payload *)

\* int(str(vrid).strip()): None where int() raises ValueError
ParseVrid(raw) ==
    CASE raw = "16"   -> Some(16)
      [] raw = " 7 "  -> Some(7)
      [] raw = "0"    -> Some(0)
      [] raw = "-5"   -> Some(-5)
      [] raw = "255"  -> Some(255)
      [] raw = "256"  -> Some(256)
      [] raw = "1"    -> Some(1)
      [] OTHER        -> None

\* a build that takes any number as it is
SanitizeVridNoClamp(raw) ==
    IF ParseVrid(raw) = None THEN 16 ELSE ParseVrid(raw)[1]

\* lines 581-586: clamp into [1, 255], "16" when the text is no number
SanitizeVrid(raw) ==
    LET p == ParseVrid(raw)
    IN  IF p = None THEN 16
        ELSE Max(1, IF p[1] <= 255 THEN p[1] ELSE 255)

\* a build that does not read the CSV override
CsvLinkIgnored(r) == ""

\* lines 591-594: the CSV override, cleaned and cut before the first "."
CsvLink(r) == BeforeDot(CleanIface(r.vrrp_link_interface))

\* lines 597-599: the target gateways discovery gave no ha interface for
MissingHaLink(keys, ha_link_map) ==
    SelectSeq(keys, LAMBDA k : k \notin DOMAIN ha_link_map)

\* lines 606-609
RawTrack(r, vlans) ==
    LET wan_ifaces == CollectWanIfacesFromRow(r)
        lan_ifaces == CollectLanIfacesFromVlans(vlans, wan_ifaces)
    IN  UniquePreserve(wan_ifaces \o lan_ifaces)

\* a candidate filter without the link-interface test
TrackFinalKeepsLink(raw_track, inv, link_name_to_exclude) ==
    SelectSeq(raw_track, LAMBDA i :
        /\ i # ""
        /\ i \notin inv.mgmt_names
        /\ i # "mgmt"
        /\ i \in inv.common_trackables)

\* a build that tracks whatever every peer reports, declared or not
TrackFinalAllCommon(raw_track, inv, link_name_to_exclude) ==
    SelectSeq(<<"ge3", "ge5", "ge6">>, LAMBDA i :
        i # link_name_to_exclude /\ i \in inv.common_trackables)

\* lines 614-618: the candidates that survive the exclusions and are on all peers
TrackFinal(raw_track, inv, link_name_to_exclude) ==
    SelectSeq(raw_track, LAMBDA i :
        /\ i # ""
        /\ i \notin inv.mgmt_names
        /\ i # "mgmt"
        /\ i # link_name_to_exclude
        /\ i \in inv.common_trackables)

\* an extras filter without the link-interface test
ExtraAcceptedAnyLink(e, inv, link_name_to_exclude, track_final) ==
    /\ e \in inv.common_trackables
    /\ e \notin inv.mgmt_names
    /\ e \notin SeqToSet(track_final)

\* line 625: whether an extra is appended to track_final
ExtraAccepted(e, inv, link_name_to_exclude, track_final) ==
    /\ e \in inv.common_trackables
    /\ e \notin inv.mgmt_names
    /\ e # link_name_to_exclude
    /\ e \notin SeqToSet(track_final)

RECURSIVE MergeExtras(_, _, _, _)
\* lines 621-626; extras is the sequence of the comma-separated parts
MergeExtras(extras, inv, link_name_to_exclude, track_final) ==
    IF extras = << >> THEN track_final
    ELSE LET e == CleanIface(Head(extras))
         IN  MergeExtras(Tail(extras), inv, link_name_to_exclude,
                 IF e # "" /\ ExtraAccepted(e, inv, link_name_to_exclude, track_final)
                 THEN Append(track_final, e) ELSE track_final)

\* the names next(iter(ha_names)) can yield: any element of the set, "" if empty
FirstHaChoices(inv) ==
    IF DOMAIN inv.ha_link_map = {} THEN {""}
    ELSE { inv.ha_link_map[k] : k \in DOMAIN inv.ha_link_map }

Standalone == [kind |-> "standalone"]

\* lines 601-604 and 629-632: the gateway ids the SystemExit message names.
\* Both messages are fixed texts; the list "missing" is not put into them.
NamedInMessage(missing) == {}

\* raise SystemExit: the reason and the gateway ids named in the message
BuildExit(why, named) == [kind |-> "exit", why |-> why, named |-> named]

\* a build that never finds the track list empty
TrackEmptyNever(track_final) == FALSE

\* line 628: if not track_final
TrackEmpty(track_final) == track_final = << >>

\* build_vrrp_payload once the interfaces GET has returned items; first_ha is
\* the element next(iter(ha_names)) yields
BuildVrrpPayload(gateways, r, vlans, items, first_ha) ==
    IF Len(gateways) <= 1 THEN Standalone
    ELSE
    LET inv      == DiscoverIfaceInventory(items, gateways)
        csv_link == CsvLink(r)
        keys     == GatewayKeys(gateways)
        link_name_to_exclude == IF csv_link # "" THEN csv_link ELSE first_ha
        track_final ==
            MergeExtras(r.vrrp_track_extra, inv, link_name_to_exclude,
                        TrackFinal(RawTrack(r, vlans), inv, link_name_to_exclude))
    IN  IF csv_link = "" /\ MissingHaLink(keys, inv.ha_link_map) # << >>
        THEN BuildExit("ha_link_unknown",
                       NamedInMessage(MissingHaLink(keys, inv.ha_link_map)))
        ELSE IF TrackEmpty(track_final)
        THEN BuildExit("track_empty", NamedInMessage(<< >>))
        ELSE [kind |-> "payload",
              virtual_router_id |-> SanitizeVrid(r.vrrp_vrid),
              link_iface_used |-> link_name_to_exclude,
              track_value |-> track_final,
              track_interface |-> [k \in SeqToSet(keys) |-> track_final],
              vrrp_interface |-> [k \in SeqToSet(keys) |->
                                    IF csv_link # "" THEN csv_link
                                    ELSE inv.ha_link_map[k]]]

----------------------------------------------------------------------------
(* Inputs: rows of sites.csv, VLAN definitions, discovery responses *)

\* a sites.csv row.  wan_cols are the columns wan_interface_name,
\* wan0_interface_name, wan0_interface, wan_interface, wan1_interface_name,
\* wan1_interface; wan1 are wan1_ip, wan1_mask, wan1_gw (wan1_interface_name is
\* wan_cols[5]); render_ok is whether site_template.json.j2 renders to JSON
BaseRow(s) ==
    [site_name |-> s, template_id |-> "t1", template_name |-> "",
     gateway_name_b |-> "", wan1 |-> <<"", "", "">>,
     wan_cols |-> <<"ge3", "", "", "", "", "">>,
     dhcp_server_ip |-> "", dhcp_service_mode |-> "", render_ok |-> TRUE,
     private_dns |-> "", vlans_file |-> "", appc_provision |-> "",
     vrrp_link_interface |-> "", vrrp_track_extra |-> << >>, vrrp_vrid |-> "16"]

\* a VLAN definition as load_vlans returns it (the fields the model reads)
Vlan(name, tag, interface, gw, enabled, share) ==
    [name |-> name, tag |-> tag, interface |-> interface, default_gateway |-> gw,
     enabled |-> enabled, share_over_vpn |-> share]

\* one entry of the interfaces response for gateway g; t3, t5, t7 are the types
\* reported for ge3, ge5, ge7 ("" for an interface the gateway does not list)
\* and raw says whether names and types come in another case and padding
GatewayEntry(g, t3, t5, t7, raw) ==
    [gateway_id |-> g,
     interfaces |->
        (IF t3 = "" THEN << >>
         ELSE <<[name |-> IF raw THEN "GE3 " ELSE "ge3",
                 interface_type |-> IF raw /\ t3 = "lan" THEN "LAN" ELSE t3]>>)
        \o (IF t5 = "" THEN << >>
            ELSE <<[name |-> IF raw THEN " Ge5" ELSE "ge5", interface_type |-> t5]>>)
        \o (IF t7 = "" THEN << >>
            ELSE <<[name |-> IF raw THEN "GE7" ELSE "ge7",
                    interface_type |-> IF raw /\ t7 = "ha" THEN " HA " ELSE t7]>>)]

\* the entries gateway g may report
GatewayEntries(g, raw) ==
    { GatewayEntry(g, t3, t5, t7, raw) :
        t3 \in {"", "lan", "wan", "management", "ha"},
        t5 \in {"", "lan"},
        t7 \in {"", "ha", "lan", "management"} }

\* a response in which g1 reports ge3 (wan), ge5, ge6 (lan) and ge7 (ha) and g2
\* reports ge3 (wan), ge5 (lan) and ge7 (ha)
ScenarioDiscovery ==
    <<[gateway_id |-> "g1",
       interfaces |-> <<[name |-> "ge3", interface_type |-> "wan"],
                        [name |-> "ge5", interface_type |-> "lan"],
                        [name |-> "ge6", interface_type |-> "lan"],
                        [name |-> "ge7", interface_type |-> "ha"]>>],
      [gateway_id |-> "g2",
       interfaces |-> <<[name |-> "ge3", interface_type |-> "wan"],
                        [name |-> "ge5", interface_type |-> "lan"],
                        [name |-> "ge7", interface_type |-> "ha"]>>]>>

\* interfaces responses for a site with gateways g1 and g2: both peers, g1 alone,
\* g1 and a gateway that is not a target, nothing, the scenario above
DiscoveryResponses ==
    { <<a, b>> : a \in GatewayEntries("g1", FALSE), b \in GatewayEntries("g2", TRUE) }
    \cup { <<a>> : a \in GatewayEntries("g1", FALSE) }
    \cup { <<a, GatewayEntry("g9", "lan", "lan", "ha", FALSE)>> :
             a \in GatewayEntries("g1", FALSE) }
    \cup {<< >>, ScenarioDiscovery}

\* texts of the vrrp_vrid column: numbers in and out of range, padded, empty,
\* not a number
VridTexts == {"16", " 7 ", "0", "-5", "255", "256", "1", "", "abc"}

\* rows as build_vrrp_payload reads them: link override, extras, WAN columns,
\* and rows that differ in vrrp_vrid only
VrrpRows ==
    { [BaseRow("siteA") EXCEPT !.vrrp_link_interface = l, !.vrrp_track_extra = x,
                               !.wan_cols = w] :
        l \in {"", "GE7", "ge3.100"},
        x \in {<< >>, <<" Ge5">>, <<"ge7", "", "ge3">>},
        w \in {<<"", "", "", "", "", "">>, <<"ge3", "", "", "", "", "">>,
               <<"GE3 ", "", "ge7", "", "ge3", "ge5.20">>} }
    \cup { [BaseRow("siteA") EXCEPT !.vrrp_vrid = v] : v \in VridTexts }

VrrpVlanLists ==
    {<< >>,
     <<Vlan("users", "20", <<"ge5.20">>, "10.0.20.1", TRUE, FALSE)>>,
     <<Vlan("mgmt", "1", <<"MGMT">>, "10.0.1.1", TRUE, FALSE),
       Vlan("voice", "30", <<"ge7.30", "ge7.30">>, "10.0.30.1", FALSE, TRUE)>>}

VrrpGateways == {<<"g1">>, <<"g1", "g2">>}

----------------------------------------------------------------------------
(* Template resolution *)

\* what GET /templates may list
TemplateCatalogs ==
    {<< >>,
     <<[name |-> "TplA", id |-> "t1"]>>,
     <<[name |-> "TplA", id |-> "t1"], [name |-> "tpla ", id |-> "t2"]>>,
     <<[name |-> "", id |-> "t0"], [name |-> "TplA", id |-> ""]>>}

\* a resolver that fetches the catalog on every call
NeedsLoadAlways(t) == TRUE

\* TemplateResolver._load, lines 240-241: the fetch is skipped once _loaded is set
NeedsLoad(t) == ~t.loaded

\* TemplateResolver._by_lower_name.get(name.strip().lower(), [])
TemplateHits(items, name) ==
    SelectSeq(items, LAMBDA t : StripLower(t.name) # ""
                                /\ StripLower(t.name) = StripLower(name))

\* a resolver that takes the first of several templates of the same name
TemplateResolveFirstHit(items, name) ==
    IF Len(TemplateHits(items, name)) >= 1 THEN TemplateHits(items, name)[1].id ELSE ""

\* TemplateResolver.resolve after _load: the id of a single hit, else None
TemplateResolve(items, name) ==
    IF Len(TemplateHits(items, name)) = 1 THEN TemplateHits(items, name)[1].id ELSE ""

----------------------------------------------------------------------------
(* Row checks of main() *)

\* a validation that lets every row through
ValidateRowAnything(r) == TRUE

\* validate_row_is_ha_consistent: TRUE when it returns, FALSE when it raises
ValidateRowIsHaConsistent(r) ==
    LET b_name   == r.gateway_name_b
        b_fields == r.wan1 \o <<r.wan_cols[5]>>
        any_b    == \E j \in 1..Len(b_fields) : b_fields[j] # ""
        all_b    == \A j \in 1..Len(b_fields) : b_fields[j] # ""
    IN  /\ ~(any_b /\ b_name = "")
        /\ ~(b_name # "" /\ ~all_b)

\* lines 1003-1008: the DHCP service mode of the site
DhcpSvc(r) ==
    LET svc == IF r.dhcp_service_mode \in {"", "relay", "server", "inherit"}
               THEN r.dhcp_service_mode ELSE ""
    IN  IF svc = "" /\ r.dhcp_server_ip # "" THEN "relay" ELSE svc

\* line 1128: str(r.get("appc_provision", "")).lower() in ("1", "true", "yes")
WantsZpa(r) == r.appc_provision \in {"1", "true", "TRUE", "yes"}

\* the VLAN files of the model: whether the path exists, whether load_vlans
\* returns, and the definitions it returns
VlanFile(name) ==
    CASE name = "one.csv" ->
           [exists |-> TRUE, loads |-> TRUE,
            vlans |-> <<Vlan("users", "20", <<"ge5.20">>, "10.0.20.1", TRUE, TRUE)>>]
      [] name = "two.csv" ->
           [exists |-> TRUE, loads |-> TRUE,
            vlans |-> <<Vlan("users", "20", <<"ge5.20">>, "10.0.20.1", TRUE, FALSE),
                        Vlan("voice", "30", <<"ge3">>, "10.0.30.1", FALSE, TRUE)>>]
      [] name = "bad.csv" -> [exists |-> TRUE, loads |-> FALSE, vlans |-> << >>]
      [] OTHER -> [exists |-> FALSE, loads |-> FALSE, vlans |-> << >>]

\* rows that reach the later stages
FullRows ==
    { [BaseRow(s) EXCEPT !.private_dns = d, !.vlans_file = v, !.appc_provision = a] :
        s \in {"siteA", "siteB"}, d \in {"", "10.1.1.1"},
        v \in {"", "two.csv"}, a \in {"", "1"} }

\* rows that exercise one check or one input each
SpecialRows ==
    {BaseRow(""),
     [BaseRow("siteA") EXCEPT !.wan1 = <<"198.51.100.2", "", "">>],
     [BaseRow("siteA") EXCEPT !.gateway_name_b = "gwB"],
     [BaseRow("siteA") EXCEPT !.gateway_name_b = "gwB",
                              !.wan1 = <<"198.51.100.2", "30", "198.51.100.1">>,
                              !.wan_cols = <<"ge3", "", "", "", "ge3", "">>,
                              !.vlans_file = "two.csv", !.vrrp_link_interface = "GE7"],
     [BaseRow("siteA") EXCEPT !.template_id = ""],
     [BaseRow("siteA") EXCEPT !.template_id = "", !.template_name = "tpla "],
     [BaseRow("siteB") EXCEPT !.template_id = "", !.template_name = "nope"],
     [BaseRow("siteA") EXCEPT !.dhcp_service_mode = "relay"],
     [BaseRow("siteA") EXCEPT !.dhcp_service_mode = "bogus", !.dhcp_server_ip = "10.9.9.9"],
     [BaseRow("siteA") EXCEPT !.render_ok = FALSE],
     [BaseRow("siteB") EXCEPT !.vlans_file = "missing.csv"],
     [BaseRow("siteB") EXCEPT !.vlans_file = "bad.csv"],
     [BaseRow("siteB") EXCEPT !.vlans_file = "one.csv", !.appc_provision = "TRUE"],
     [BaseRow("siteB") EXCEPT !.appc_provision = "no"]}

RowSet == FullRows \cup SpecialRows

\* str.strip() on the post fields of the model
StripPost(s) ==
    CASE s = " 1 " -> "1"
      [] OTHER     -> s

\* a selection that takes every row of the file
TodoEveryRow(posts) == [i \in 1..Len(posts) |-> i]

\* line 966: todo, as the file positions of the rows whose post field is "1"
\* after strip()
Todo(posts) ==
    SelectSeq([i \in 1..Len(posts) |-> i], LAMBDA i : StripPost(posts[i]) = "1")

\* a sites.csv with n rows marked for posting (as "1" and as " 1 " in turn),
\* each after a row that is not marked (post empty, "0" or "true")
CsvFile(n) ==
    [i \in 1..(2 * n + 1) |->
        IF i % 2 = 0
        THEN IF (i \div 2) % 2 = 1 THEN "1" ELSE " 1 "
        ELSE <<"", "0", "true">>[((i \div 2) % 3) + 1]]

----------------------------------------------------------------------------
(* main(): from the start of the run to the cluster handle *)

VlIdle ==
    [pc |-> "idle", vlans |-> << >>, n |-> 0, vlan_ok |-> 0, vlan_fail |-> 0,
     current |-> << >>]

RqIdle ==
    [pc |-> "idle", bearer |-> 1, calls |-> 0, sent |-> << >>, refreshes |-> 0,
     refreshed |-> FALSE, first |-> 0, status |-> 0]

VrIdle ==
    [pc |-> "idle", gateways |-> << >>, row |-> BaseRow(""), vlans |-> << >>,
     items |-> << >>, out |-> Standalone]

\* "fail += 1; continue" after a failure at the given stage
RowFails(stage) ==
    /\ fail' = fail + 1
    /\ pc' = "next_row"
    /\ events' = Log(events, Event(stage, FALSE, ""))

\* lines 965-971: the rows marked post=1; without any the run ends at once
Start ==
    /\ pc = "start"
    /\ pc' = IF nrows = 0 THEN "done" ELSE "next_row"
    /\ UNCHANGED <<dry_run, csv, nrows, idx, row, ok, fail, site_id, gateways_str,
                   cluster_id, templates, dns_i, vl, events, rs, rq, vr>>

\* line 978: the for loop takes the next row of todo, or the run is done.
\* gateways_str and cluster_id are dead until line 1066 assigns them again.
NextRow ==
    /\ pc = "next_row"
    /\ IF idx < nrows
       THEN \E r \in RowSet :
              /\ row' = r
              /\ idx' = idx + 1
              /\ pc' = "validate"
              /\ events' = << >>
              /\ gateways_str' = << >>
              /\ cluster_id' = None
       ELSE /\ pc' = "done"
            /\ UNCHANGED <<row, idx, events, gateways_str, cluster_id>>
    /\ UNCHANGED <<dry_run, csv, nrows, ok, fail, site_id, templates, dns_i, vl, rs, rq, vr>>

\* lines 979-990: site_name present, HA declaration consistent
Validate ==
    /\ pc = "validate"
    /\ IF row.site_name = "" \/ ~ValidateRowIsHaConsistent(row)
       THEN RowFails("validate")
       ELSE pc' = "template" /\ UNCHANGED <<fail, events>>
    /\ UNCHANGED <<dry_run, csv, nrows, idx, row, ok, site_id, gateways_str,
                   cluster_id, templates, dns_i, vl, rs, rq, vr>>

\* lines 992-1000 with ensure_template_id_for_row, TemplateResolver.resolve and
\* _load: a GET of the catalog that fails raises RuntimeError out of main()
Template ==
    /\ pc = "template"
    /\ IF row.template_id # ""
       THEN pc' = "render" /\ UNCHANGED <<row, fail, templates, events>>
       ELSE IF row.template_name = ""
       THEN RowFails("template") /\ UNCHANGED <<row, templates>>
       ELSE \E fetched \in BOOLEAN, again \in BOOLEAN,
               got \in IF NeedsLoad(templates) THEN TemplateCatalogs
                       ELSE {templates.items} :
              IF NeedsLoad(templates) /\ ~fetched
              THEN /\ pc' = "crashed"
                   /\ events' = Log(events, Event("template_get", FALSE, ""))
                   /\ templates' = [templates EXCEPT !.fetches = @ + 1,
                                                     !.loads = @ + 1]
                   /\ UNCHANGED <<row, fail>>
              ELSE LET loaded_now == IF NeedsLoad(templates) THEN 1 ELSE 0
                       resolved   == TemplateResolve(got, row.template_name)
                       es1 == IF NeedsLoad(templates)
                              THEN Log(events, Event("template_get", TRUE, ""))
                              ELSE events
                   IN  IF resolved # ""
                       THEN /\ row' = [row EXCEPT !.template_id = resolved]
                            /\ pc' = "render"
                            /\ events' = es1
                            /\ templates' = [loaded |-> TRUE, items |-> got,
                                             fetches |-> templates.fetches + loaded_now,
                                             loads |-> templates.loads + loaded_now]
                            /\ UNCHANGED fail
                       ELSE \* line 270: the catalog is fetched again for the hint
                            /\ templates' = [loaded |-> TRUE, items |-> got,
                                             fetches |-> templates.fetches
                                                         + loaded_now + 1,
                                             loads |-> templates.loads + loaded_now]
                            /\ UNCHANGED row
                            /\ IF again
                               THEN /\ fail' = fail + 1
                                    /\ pc' = "next_row"
                                    /\ events' = Log(Append(es1,
                                                      Event("template_get", TRUE, "")),
                                                     Event("template", FALSE, ""))
                               ELSE /\ pc' = "crashed"
                                    /\ events' = Append(es1,
                                                   Event("template_get", FALSE, ""))
                                    /\ UNCHANGED fail
    /\ UNCHANGED <<dry_run, csv, nrows, idx, ok, site_id, gateways_str, cluster_id,
                   dns_i, vl, rs, rq, vr>>

\* lines 1002-1032: DHCP relay validation, template render
Render ==
    /\ pc = "render"
    /\ IF (DhcpSvc(row) = "relay" /\ row.dhcp_server_ip = "") \/ ~row.render_ok
       THEN RowFails("render")
       ELSE /\ pc' = IF dry_run THEN "dry_run" ELSE "create"
            /\ UNCHANGED <<fail, events>>
    /\ UNCHANGED <<dry_run, csv, nrows, idx, row, ok, site_id, gateways_str,
                   cluster_id, templates, dns_i, vl, rs, rq, vr>>

\* lines 1034-1055: the dry-run preview; provision_zpa_for_site is called with
\* cluster_id=99999 and dry_run=True when the row asks for it. It signs in to
\* ZPA whatever dry_run is (zpa_provisioning.py line 354); zpa_login raises
\* SystemExit when the sign-in fails, which "except Exception" does not catch
DryRun ==
    /\ pc = "dry_run"
    /\ IF WantsZpa(row)
       THEN \/ /\ events' = Log(events, Event("zpa_login", FALSE, ""))
               /\ pc' = "crashed"
               /\ UNCHANGED ok
            \/ \E zpa_ok \in BOOLEAN :
                 /\ events' = Log(Log(events, Event("zpa_login", TRUE, "")),
                                  Event("zpa_dry", zpa_ok, "99999"))
                 /\ ok' = ok + 1
                 /\ pc' = "next_row"
       ELSE /\ ok' = ok + 1
            /\ pc' = "next_row"
            /\ UNCHANGED events
    /\ UNCHANGED <<dry_run, csv, nrows, idx, row, fail, site_id, gateways_str,
                   cluster_id, templates, dns_i, vl, rs, rq, vr>>

\* lines 1057-1071: POST deploy_site; on success the resolver is called with
\* the cluster id parsed from the response as the hint
CreateSite ==
    /\ pc = "create"
    /\ \E ok_site \in BOOLEAN, cluster_hint \in ClusterVals :
         IF ok_site
         THEN /\ events' = Log(events, Event("create", TRUE, ""))
              /\ rs' = RsCall(row.site_name, cluster_hint, POLL_RETRIES)
              /\ pc' = "resolving"
              /\ UNCHANGED fail
         ELSE /\ fail' = fail + 1
              /\ pc' = "next_row"
              /\ events' = Log(events, Event("create", FALSE, ""))
              /\ UNCHANGED rs
    /\ UNCHANGED <<dry_run, csv, nrows, idx, row, ok, site_id, gateways_str,
                   cluster_id, templates, dns_i, vl, rq, vr>>

\* a readiness test that looks at the cluster id alone
NotReadyClusterOnly(gw, cl) == ~TruthyInt(cl)

\* line 1072: not gateways_str or not cluster_id
NotReady(gw, cl) == gw = << >> \/ ~TruthyInt(cl)

\* lines 1066-1076: the resolver returned; a handle that is not ready fails the site
AfterResolve ==
    /\ pc = "resolving"
    /\ rs.pc \in {"returned", "exhausted"}
    /\ gateways_str' = rs.gw
    /\ cluster_id' = rs.cl
    /\ rs' = RsIdle
    /\ IF NotReady(rs.gw, rs.cl)
       THEN RowFails("cluster_ready")
       ELSE pc' = "dns" /\ UNCHANGED <<fail, events>>
    /\ UNCHANGED <<dry_run, csv, nrows, idx, row, ok, site_id, templates, dns_i, vl, rq, vr>>

\* an exception no caller catches ends main(): the RuntimeError get_json raises
\* inside the resolver
ResolveRaised ==
    /\ pc = "resolving"
    /\ rs.pc = "raised"
    /\ pc' = "crashed"
    /\ rs' = RsIdle
    /\ UNCHANGED <<dry_run, csv, nrows, idx, row, ok, fail, site_id, gateways_str,
                   cluster_id, templates, dns_i, vl, events, rq, vr>>

----------------------------------------------------------------------------
(* main(): private DNS *)

\* lines 1093-1094: ci.get("site_id") or existing.get("site_id") or existing.get("id")
SiteIdOfRow(found) ==
    IF found = << >> THEN ""
    ELSE IF found[1].ci_site_id # "" THEN found[1].ci_site_id
    ELSE IF found[1].site_id # "" THEN found[1].site_id
    ELSE found[1].id

\* lines 1113, 1124: existing.get("id") if existing else None
IdOfRow(found) == IF found = << >> THEN "" ELSE found[1].id

\* lines 1083-1088: without private_dns the step is skipped and site_id keeps
\* whatever an earlier iteration left in it; with it site_id is reset
PrivateDns ==
    /\ pc = "dns"
    /\ IF row.private_dns = ""
       THEN pc' = "vlans" /\ UNCHANGED site_id
       ELSE pc' = "dns_lookup" /\ site_id' = ""
    /\ dns_i' = 0
    /\ UNCHANGED <<dry_run, csv, nrows, idx, row, ok, fail, gateways_str, cluster_id,
                   templates, vl, events, rs, rq, vr>>

\* lines 1089-1097: one iteration of the lookup loop
DnsLookup ==
    /\ pc = "dns_lookup"
    /\ dns_i < DNS_LOOKUPS
    /\ \/ /\ pc' = "crashed"
          /\ events' = Log(events, Event("dns_lookup", FALSE, ""))
          /\ UNCHANGED <<site_id, dns_i>>
       \/ \E rows \in SiteIdResponses(row.site_name) :
            LET sid == SiteIdOfRow(FindSiteRowByName(rows, row.site_name))
            IN  /\ events' = Log(events, Event("dns_lookup", TRUE, ""))
                /\ site_id' = sid
                /\ IF sid # "" \/ dns_i + 1 >= DNS_LOOKUPS
                   THEN pc' = "dns_put" /\ dns_i' = 0
                   ELSE pc' = pc /\ dns_i' = dns_i + 1
    /\ UNCHANGED <<dry_run, csv, nrows, idx, row, ok, fail, gateways_str, cluster_id,
                   templates, vl, rs, rq, vr>>

\* lines 1099-1104 with configure_private_dns: the PUT; its outcome is printed
DnsPut ==
    /\ pc = "dns_put"
    /\ IF site_id # ""
       THEN \E put_ok \in BOOLEAN :
              events' = Log(events, Event("dns_put", put_ok, site_id))
       ELSE UNCHANGED events
    /\ pc' = "vlans"
    /\ UNCHANGED <<dry_run, csv, nrows, idx, row, ok, fail, site_id, gateways_str,
                   cluster_id, templates, dns_i, vl, rs, rq, vr>>

----------------------------------------------------------------------------
(* process_vlans_for_site *)

\* a payload builder that doubles the interface of every definition
MaybeDupAlways(interface, gateways) == <<interface[1], interface[1]>>

\* _maybe_dup_interface_for_ha; an interface is the sequence of its comma parts
MaybeDupInterfaceForHa(interface, gateways) ==
    IF Len(gateways) > 1 /\ interface # <<"">> /\ Len(interface) = 1
    THEN <<interface[1], interface[1]>>
    ELSE interface

\* _vlan_key
VlanKey(v) ==
    <<StripLower(v.name), v.tag,
      [j \in 1..Len(v.interface) |-> CleanIface(v.interface[j])],
      v.default_gateway>>

\* the record the backend keeps for definition v when it persists the payload
\* of vlan_to_v2_payload unchanged
PersistedAs(v, gateways, id) ==
    [id |-> id, name |-> v.name, tag |-> v.tag,
     interface |-> MaybeDupInterfaceForHa(v.interface, gateways),
     default_gateway |-> v.default_gateway]

VlanIds == <<"n1", "n2", "n3">>

\* what the re-fetch may return in main(): nothing, every definition as
\* submitted, or all but the first
CurrentLists(vlans, gateways) ==
    LET all == [j \in 1..Len(vlans) |-> PersistedAs(vlans[j], gateways, VlanIds[j])]
    IN  {<< >>, all, IF all = << >> THEN << >> ELSE Tail(all)}

RECURSIVE LastWithKey(_, _)
\* id_map.get(k): the last record of current with key k (later ones overwrite)
LastWithKey(current, k) ==
    IF current = << >> THEN << >>
    ELSE IF VlanKey(current[Len(current)]) = k THEN <<current[Len(current)]>>
    ELSE LastWithKey(SubSeq(current, 1, Len(current) - 1), k)

\* find_id_for: the composite key, then the first record with the same name
\* and tag that has an id
FindIdFor(csv_vlan, current) ==
    LET hit == LastWithKey(current, VlanKey(csv_vlan))
        relaxed == SelectSeq(current, LAMBDA v :
                      /\ StripLower(v.name) = StripLower(csv_vlan.name)
                      /\ v.tag = csv_vlan.tag
                      /\ v.id # "")
    IN  IF hit # << >> /\ hit[1].id # "" THEN hit[1].id
        ELSE IF relaxed # << >> THEN relaxed[1].id
        ELSE ""

\* lines 1106-1118 and 809-819: the site id for the VLAN step, then the load
VlanSiteId ==
    /\ pc = "vlans"
    /\ IF row.vlans_file # "" /\ VlanFile(row.vlans_file).exists
       THEN \/ /\ site_id = ""
               /\ pc' = "crashed"
               /\ events' = Log(events, Event("vlan_lookup", FALSE, ""))
               /\ UNCHANGED <<site_id, vl>>
            \/ \E rows \in IF site_id = "" THEN SiteIdResponses(row.site_name)
                           ELSE {<< >>} :
                 LET sid == IF site_id = ""
                            THEN IdOfRow(FindSiteRowByName(rows, row.site_name))
                            ELSE site_id
                     es1 == IF site_id = ""
                            THEN Log(events, Event("vlan_lookup", TRUE, ""))
                            ELSE events
                     file == VlanFile(row.vlans_file)
                 IN  /\ site_id' = sid
                     /\ IF sid = ""
                        THEN pc' = "vrrp" /\ events' = es1 /\ UNCHANGED vl
                        ELSE IF ~file.loads
                        THEN /\ pc' = "vrrp"
                             /\ events' = Log(es1, Event("vlan_load", FALSE, sid))
                             /\ UNCHANGED vl
                        ELSE /\ pc' = "vlan_run"
                             /\ events' = es1
                             /\ vl' = [pc |-> IF file.vlans = << >> THEN "list" ELSE "post",
                                       vlans |-> file.vlans, n |-> 1, vlan_ok |-> 0,
                                       vlan_fail |-> 0, current |-> << >>]
       ELSE pc' = "vrrp" /\ UNCHANGED <<site_id, vl, events>>
    /\ UNCHANGED <<dry_run, csv, nrows, idx, row, ok, fail, gateways_str, cluster_id,
                   templates, dns_i, rs, rq, vr>>

\* a submission loop that stops at the first failed POST
VlanPostStopsOnFailure ==
    /\ pc = "vlan_run"
    /\ vl.pc = "post"
    /\ \E okv \in BOOLEAN :
         /\ events' = Log(events, Event("vlan_post", okv, vl.vlans[vl.n].name))
         /\ vl' = [vl EXCEPT !.vlan_ok = IF okv THEN @ + 1 ELSE @,
                             !.vlan_fail = IF okv THEN @ ELSE @ + 1,
                             !.n = IF vl.n = Len(vl.vlans) \/ ~okv THEN 1 ELSE @ + 1,
                             !.pc = IF vl.n = Len(vl.vlans) \/ ~okv
                                    THEN "list" ELSE "post"]
    /\ UNCHANGED <<pc, dry_run, csv, nrows, idx, row, ok, fail, site_id, gateways_str,
                   cluster_id, templates, dns_i, rs, rq, vr>>

\* lines 825-838: POST of the next definition; a failure is counted and the
\* loop goes on
VlanPost ==
    /\ pc = "vlan_run"
    /\ vl.pc = "post"
    /\ \E okv \in BOOLEAN :
         /\ events' = Log(events, Event("vlan_post", okv, vl.vlans[vl.n].name))
         /\ vl' = [vl EXCEPT !.vlan_ok = IF okv THEN @ + 1 ELSE @,
                             !.vlan_fail = IF okv THEN @ ELSE @ + 1,
                             !.n = IF vl.n = Len(vl.vlans) THEN 1 ELSE @ + 1,
                             !.pc = IF vl.n = Len(vl.vlans) THEN "list" ELSE "post"]
    /\ UNCHANGED <<pc, dry_run, csv, nrows, idx, row, ok, fail, site_id, gateways_str,
                   cluster_id, templates, dns_i, rs, rq, vr>>

\* line 846: the re-fetch; a GET that fails raises RuntimeError out of main()
VlanList ==
    /\ pc = "vlan_run"
    /\ vl.pc = "list"
    /\ \/ /\ pc' = "crashed"
          /\ events' = Log(events, Event("vlan_list", FALSE, site_id))
          /\ UNCHANGED vl
       \/ \E cur \in CurrentLists(vl.vlans, gateways_str) :
            /\ events' = Log(events, Event("vlan_list", TRUE, site_id))
            /\ vl' = [vl EXCEPT !.current = cur, !.n = 1,
                                !.pc = IF vl.vlans = << >> THEN "done" ELSE "enable"]
            /\ UNCHANGED pc
    /\ UNCHANGED <<dry_run, csv, nrows, idx, row, ok, fail, site_id, gateways_str,
                   cluster_id, templates, dns_i, rs, rq, vr>>

\* lines 870-894: the enable PUT of the next definition
VlanEnable ==
    /\ pc = "vlan_run"
    /\ vl.pc = "enable"
    /\ LET v   == vl.vlans[vl.n]
           vid == FindIdFor(v, vl.current)
       IN  IF ~v.enabled THEN UNCHANGED events
           ELSE IF vid = ""
           THEN events' = Log(events, Event("vlan_warn", TRUE, v.name))
           ELSE \E put_ok \in BOOLEAN :
                  events' = Log(events, Event("vlan_put", put_ok, vid))
    /\ vl' = [vl EXCEPT !.n = IF vl.n = Len(vl.vlans) THEN 1 ELSE @ + 1,
                        !.pc = IF vl.n = Len(vl.vlans) THEN "share" ELSE "enable"]
    /\ UNCHANGED <<pc, dry_run, csv, nrows, idx, row, ok, fail, site_id, gateways_str,
                   cluster_id, templates, dns_i, rs, rq, vr>>

\* lines 897-915: the share-over-VPN PATCH of the next definition
VlanShare ==
    /\ pc = "vlan_run"
    /\ vl.pc = "share"
    /\ LET v   == vl.vlans[vl.n]
           vid == FindIdFor(v, vl.current)
       IN  IF ~v.share_over_vpn THEN UNCHANGED events
           ELSE IF vid = ""
           THEN events' = Log(events, Event("vlan_warn", TRUE, v.name))
           ELSE \E patch_ok \in BOOLEAN :
                  events' = Log(events, Event("vlan_patch", patch_ok, vid))
    /\ vl' = [vl EXCEPT !.n = IF vl.n = Len(vl.vlans) THEN 1 ELSE @ + 1,
                        !.pc = IF vl.n = Len(vl.vlans) THEN "done" ELSE "share"]
    /\ UNCHANGED <<pc, dry_run, csv, nrows, idx, row, ok, fail, site_id, gateways_str,
                   cluster_id, templates, dns_i, rs, rq, vr>>

\* a process_vlans_for_site that fails the site when a definition could not
\* be matched
VlanReturnFailsOnWarn ==
    /\ pc = "vlan_run"
    /\ vl.pc = "done"
    /\ IF \E a \in 1..Len(events) : events[a].k = "vlan_warn"
       THEN pc' = "next_row" /\ fail' = fail + 1
       ELSE pc' = "vrrp" /\ UNCHANGED fail
    /\ vl' = VlIdle
    /\ UNCHANGED <<dry_run, csv, nrows, idx, row, ok, site_id, gateways_str,
                   cluster_id, templates, dns_i, events, rs, rq, vr>>

\* process_vlans_for_site returns to main()
VlanReturn ==
    /\ pc = "vlan_run"
    /\ vl.pc = "done"
    /\ pc' = "vrrp"
    /\ vl' = VlIdle
    /\ UNCHANGED <<dry_run, csv, nrows, idx, row, ok, fail, site_id, gateways_str,
                   cluster_id, templates, dns_i, events, rs, rq, vr>>

----------------------------------------------------------------------------
(* main(): VRRP and external provisioning *)

\* interfaces responses in main(): both peers complete; peer g2 without an ha
\* interface; peer g2 absent; peer g2 without lan/wan interfaces; nothing
MainDiscovery ==
    {<<GatewayEntry("g1", "wan", "lan", "ha", FALSE),
       GatewayEntry("g2", "wan", "lan", "ha", TRUE)>>,
     <<GatewayEntry("g1", "wan", "lan", "ha", FALSE),
       GatewayEntry("g2", "wan", "lan", "", TRUE)>>,
     <<GatewayEntry("g1", "wan", "lan", "ha", FALSE)>>,
     <<GatewayEntry("g1", "wan", "lan", "ha", FALSE),
       GatewayEntry("g2", "", "", "ha", TRUE)>>,
     << >>}

\* configure_vrrp line 920: load_vlans(vlans_file) if vlans_file else [],
\* [] when loading raises
VlansForVrrp(r) ==
    IF r.vlans_file # "" /\ VlanFile(r.vlans_file).exists /\ VlanFile(r.vlans_file).loads
    THEN VlanFile(r.vlans_file).vlans
    ELSE << >>

\* a main() that runs the VRRP step for every site
SeveralGatewaysAlways(gateways) == TRUE

\* line 1121: len(gateways_str.split(",")) > 1
SeveralGateways(gateways) == Len(gateways) > 1

\* lines 1120-1124: for an HA site, the site id for discovery
VrrpSiteId ==
    /\ pc = "vrrp"
    /\ IF SeveralGateways(gateways_str)
       THEN \/ /\ site_id = ""
               /\ pc' = "crashed"
               /\ events' = Log(events, Event("vrrp_lookup", FALSE, ""))
               /\ UNCHANGED site_id
            \/ \E rows \in IF site_id = "" THEN SiteIdResponses(row.site_name)
                           ELSE {<< >>} :
                 /\ site_id' = IF site_id = ""
                               THEN IdOfRow(FindSiteRowByName(rows, row.site_name))
                               ELSE site_id
                 /\ events' = IF site_id = ""
                              THEN Log(events, Event("vrrp_lookup", TRUE, ""))
                              ELSE events
                 /\ pc' = "vrrp_build"
       ELSE pc' = "zpa" /\ UNCHANGED <<site_id, events>>
    /\ UNCHANGED <<dry_run, csv, nrows, idx, row, ok, fail, gateways_str, cluster_id,
                   templates, dns_i, vl, rs, rq, vr>>

\* configure_vrrp lines 918-935 with build_vrrp_payload: for a single gateway
\* the build returns standalone before any request; otherwise the interfaces
\* GET (a failure raises RuntimeError, which configure_vrrp does not catch),
\* then the build, which returns a payload or raises SystemExit
VrrpBuild ==
    /\ pc = "vrrp_build"
    /\ IF Len(gateways_str) <= 1
       THEN pc' = "zpa" /\ UNCHANGED <<events, vr>>
       ELSE
       \/ /\ pc' = "crashed"
          /\ events' = Log(events, Event("iface_get", FALSE, site_id))
          /\ UNCHANGED vr
       \/ \E items \in MainDiscovery :
            \E first_ha \in FirstHaChoices(DiscoverIfaceInventory(items, gateways_str)) :
              LET out == BuildVrrpPayload(gateways_str, row, VlansForVrrp(row),
                                          items, first_ha)
                  es1 == Log(events, Event("iface_get", TRUE, site_id))
              IN  /\ events' = IF out.kind = "payload"
                               THEN Log(es1, Event("vrrp_build", TRUE, site_id))
                               ELSE es1
                  /\ pc' = IF out.kind = "payload" THEN "vrrp_post" ELSE "vrrp_exit"
                  /\ vr' = [pc |-> IF out.kind = "payload" THEN "built" ELSE "exit",
                            gateways |-> gateways_str, row |-> row,
                            vlans |-> VlansForVrrp(row), items |-> items,
                            out |-> out]
    /\ UNCHANGED <<dry_run, csv, nrows, idx, row, ok, fail, site_id, gateways_str,
                   cluster_id, templates, dns_i, vl, rs, rq>>

\* configure_vrrp lines 929-931: SystemExit is caught, the message printed,
\* and the step returns without a POST
VrrpExit ==
    /\ pc = "vrrp_exit"
    /\ events' = Log(events, Event("vrrp_build", FALSE, site_id))
    /\ pc' = "zpa"
    /\ vr' = VrIdle
    /\ UNCHANGED <<dry_run, csv, nrows, idx, row, ok, fail, site_id, gateways_str,
                   cluster_id, templates, dns_i, vl, rs, rq>>

\* a main() that runs the VLAN step after the VRRP POST
VrrpPostThenVlans ==
    /\ pc = "vrrp_post"
    /\ \E post_ok \in BOOLEAN :
         events' = Log(events, EventC("vrrp_post", post_ok, cluster_id))
    /\ pc' = "vlans"
    /\ vr' = VrIdle
    /\ UNCHANGED <<dry_run, csv, nrows, idx, row, ok, fail, site_id, gateways_str,
                   cluster_id, templates, dns_i, vl, rs, rq>>

\* a configure_vrrp that submits a second time after a failed POST
VrrpPostRetries ==
    /\ pc = "vrrp_post"
    /\ \E post_ok \in BOOLEAN :
         /\ events' = Log(events, EventC("vrrp_post", post_ok, cluster_id))
         /\ IF ~post_ok /\ (\A a \in 1..Len(events) : events[a].k # "vrrp_post")
            THEN pc' = "vrrp_post" /\ UNCHANGED vr
            ELSE pc' = "zpa" /\ vr' = VrIdle
    /\ UNCHANGED <<dry_run, csv, nrows, idx, row, ok, fail, site_id, gateways_str,
                   cluster_id, templates, dns_i, vl, rs, rq>>

\* configure_vrrp lines 942-949: the POST to the cluster's VRRP endpoint
VrrpPost ==
    /\ pc = "vrrp_post"
    /\ \E post_ok \in BOOLEAN :
         events' = Log(events, EventC("vrrp_post", post_ok, cluster_id))
    /\ pc' = "zpa"
    /\ vr' = VrIdle
    /\ UNCHANGED <<dry_run, csv, nrows, idx, row, ok, fail, site_id, gateways_str,
                   cluster_id, templates, dns_i, vl, rs, rq>>

\* lines 1127-1130: provision_zpa_for_site, whose result main() ignores; the
\* iteration ends here without touching ok or fail. The sign-in comes first
\* (zpa_provisioning.py line 354): the SystemExit zpa_login raises on a
\* failure passes "except Exception" and ends main()
Zpa ==
    /\ pc = "zpa"
    /\ IF WantsZpa(row)
       THEN \/ /\ events' = Log(events, Event("zpa_login", FALSE, ""))
               /\ pc' = "crashed"
            \/ \E zpa_ok \in BOOLEAN :
                 /\ events' = Log(Log(events, Event("zpa_login", TRUE, "")),
                                  EventC("zpa", zpa_ok, cluster_id))
                 /\ pc' = "next_row"
       ELSE pc' = "next_row" /\ UNCHANGED events
    /\ UNCHANGED <<dry_run, csv, nrows, idx, row, ok, fail, site_id, gateways_str,
                   cluster_id, templates, dns_i, vl, rs, rq, vr>>

----------------------------------------------------------------------------
(* The run of main() *)

Init ==
    /\ pc = "start"
    /\ dry_run \in BOOLEAN
    /\ csv \in { CsvFile(n) : n \in 0..MaxRows }
    /\ nrows = Len(Todo(csv))
    /\ idx = 0
    /\ row = BaseRow("")
    /\ ok = 0
    /\ fail = 0
    /\ site_id = ""
    /\ gateways_str = << >>
    /\ cluster_id = None
    /\ templates = [loaded |-> FALSE, items |-> << >>, fetches |-> 0, loads |-> 0]
    /\ dns_i = 0
    /\ events = << >>
    /\ vl = VlIdle
    /\ rs = RsIdle
    /\ rq = RqIdle
    /\ vr = VrIdle

Next ==
    \/ Start \/ NextRow \/ Validate \/ Template \/ Render \/ DryRun
    \/ CreateSite \/ ResolveAttempt \/ ResolveExhausted \/ AfterResolve
    \/ ResolveRaised
    \/ PrivateDns \/ DnsLookup \/ DnsPut
    \/ VlanSiteId \/ VlanPost \/ VlanList \/ VlanEnable \/ VlanShare \/ VlanReturn
    \/ VrrpSiteId \/ VrrpBuild \/ VrrpExit \/ VrrpPost \/ Zpa

Spec == Init /\ [][Next]_vars

\* lines 1130-1135: after the loop main() prints "Done." and returns, and the
\* script ends with status 0 whatever fail holds; an exception or SystemExit
\* that leaves main() ends it with status 1
ExitStatus == IF pc = "crashed" THEN 1 ELSE 0

----------------------------------------------------------------------------
(* _request_with_auto_refresh: calls made one after another on one session *)

\* status codes a request may come back with
Statuses == {200, 401, 404, 500}

\* a wrapper that refreshes on every response that is not 200
NeedsRefreshOnAnyError(status) == status # 200

\* line 159: r.status_code == 401
NeedsRefresh(status) == status = 401

\* what _refresh_bearer_and_update_session may do: ztb_login.py is missing, it
\* exits non-zero, it leaves BEARER empty, or it yields a new token
RefreshOutcomes == {"no_script", "login_failed", "empty_bearer", "ok"}

\* line 160: the value _refresh_bearer_and_update_session returns
RefreshSucceeds(outcome) == outcome = "ok"

\* main(), pull_site or any helper is not running: only the function under
\* study moves
FnOnly ==
    /\ pc = "fn"
    /\ dry_run = FALSE
    /\ csv = << >>
    /\ nrows = 0
    /\ idx = 0
    /\ row = BaseRow("")
    /\ ok = 0
    /\ fail = 0
    /\ site_id = ""
    /\ gateways_str = << >>
    /\ cluster_id = None
    /\ templates = [loaded |-> FALSE, items |-> << >>, fetches |-> 0, loads |-> 0]
    /\ dns_i = 0
    /\ vl = VlIdle

\* line 158: the first session.request of a call
ReqSend ==
    /\ rq.pc = "idle"
    /\ rq.calls < MaxCalls
    /\ \E st \in Statuses :
         rq' = [rq EXCEPT !.sent = <<rq.bearer>>, !.first = st, !.status = st,
                          !.refreshes = 0, !.refreshed = FALSE,
                          !.pc = IF NeedsRefresh(st) THEN "refresh" ELSE "return"]
    /\ UNCHANGED <<mainVars, events, rs, vr>>

\* a refresh that reports success without touching the session's header
ReqRefreshKeepsToken ==
    /\ rq.pc = "refresh"
    /\ \E outcome \in RefreshOutcomes :
         rq' = IF RefreshSucceeds(outcome)
               THEN [rq EXCEPT !.refreshes = @ + 1, !.refreshed = TRUE, !.pc = "retry"]
               ELSE [rq EXCEPT !.refreshes = @ + 1, !.pc = "return"]
    /\ UNCHANGED <<mainVars, events, rs, vr>>

\* line 160 with _refresh_bearer_and_update_session: the session's
\* Authorization header changes only when a new token was obtained
ReqRefresh ==
    /\ rq.pc = "refresh"
    /\ \E outcome \in RefreshOutcomes :
         rq' = IF RefreshSucceeds(outcome)
               THEN [rq EXCEPT !.refreshes = @ + 1, !.refreshed = TRUE,
                               !.bearer = @ + 1, !.pc = "retry"]
               ELSE [rq EXCEPT !.refreshes = @ + 1, !.pc = "return"]
    /\ UNCHANGED <<mainVars, events, rs, vr>>

\* line 161: the second session.request; its response is returned as it is
ReqRetry ==
    /\ rq.pc = "retry"
    /\ \E st \in Statuses :
         rq' = [rq EXCEPT !.sent = Append(@, rq.bearer), !.status = st,
                          !.pc = "return"]
    /\ UNCHANGED <<mainVars, events, rs, vr>>

\* line 162: return r
ReqReturn ==
    /\ rq.pc = "return"
    /\ rq' = [rq EXCEPT !.pc = "idle", !.calls = @ + 1]
    /\ UNCHANGED <<mainVars, events, rs, vr>>

InitReq == FnOnly /\ events = << >> /\ rs = RsIdle /\ rq = RqIdle /\ vr = VrIdle

NextReq == ReqSend \/ ReqRefresh \/ ReqRetry \/ ReqReturn

SpecReq == InitReq /\ [][NextReq]_vars

----------------------------------------------------------------------------
(* resolve_gateway_ids_and_cluster on its own: any hint, any retries *)

InitResolve ==
    /\ FnOnly
    /\ events = << >>
    /\ rs \in { RsCall("siteA", w, n) : w \in ClusterVals, n \in -1..MaxRetries }
    /\ rq = RqIdle
    /\ vr = VrIdle

NextResolve == ResolveAttempt \/ ResolveExhausted

\* the loop is synchronous code: once called it runs until it returns or raises
SpecResolve == InitResolve /\ [][NextResolve]_vars /\ WF_vars(NextResolve)

----------------------------------------------------------------------------
(* build_vrrp_payload on its own *)

InitVrrp ==
    /\ FnOnly
    /\ events = << >>
    /\ rs = RsIdle
    /\ rq = RqIdle
    /\ vr \in { [pc |-> "args", gateways |-> g, row |-> r, vlans |-> v,
                 items |-> it, out |-> Standalone] :
                g \in VrrpGateways, r \in VrrpRows, v \in VrrpVlanLists,
                it \in DiscoveryResponses }

\* the call returns a payload, standalone, or raises SystemExit
VrrpCall ==
    /\ vr.pc = "args"
    /\ \E first_ha \in FirstHaChoices(DiscoverIfaceInventory(vr.items, vr.gateways)) :
         vr' = [vr EXCEPT !.pc = "done",
                          !.out = BuildVrrpPayload(vr.gateways, vr.row, vr.vlans,
                                                   vr.items, first_ha)]
    /\ UNCHANGED <<mainVars, events, rs, rq>>

NextVrrp == VrrpCall

SpecVrrp == InitVrrp /\ [][NextVrrp]_vars

----------------------------------------------------------------------------
(* Properties of the run of main() *)

\* the stage of main() an event belongs to, in the order of the code
StageRank(k) ==
    CASE k = "validate" -> 0
      [] k \in {"template_get", "template"} -> 1
      [] k = "render" -> 2
      [] k = "create" -> 3
      [] k \in {"lookup", "poll_exhausted", "cluster_ready"} -> 4
      [] k \in {"dns_lookup", "dns_put"} -> 5
      [] k \in {"vlan_lookup", "vlan_load", "vlan_post", "vlan_list", "vlan_warn",
                "vlan_put", "vlan_patch"} -> 6
      [] k \in {"vrrp_lookup", "iface_get", "vrrp_build", "vrrp_post"} -> 7
      [] k \in {"zpa_login", "zpa", "zpa_dry"} -> 8
      [] OTHER -> 9

\* the positions of the current row's events of the given kinds
EventsOfKind(kinds) == { a \in 1..Len(events) : events[a].k \in kinds }

\* a failure of template resolution, site creation, cluster readiness, VLAN
\* provisioning or VRRP configuration
StageFailed(e) ==
    /\ ~e.ok
    /\ e.k \in {"template_get", "template", "create", "lookup", "poll_exhausted",
                "cluster_ready", "vlan_lookup", "vlan_load", "vlan_post", "vlan_list",
                "vlan_put", "vlan_patch", "vrrp_lookup", "iface_get", "vrrp_build",
                "vrrp_post"}

\* C1: a failure at any stage of one site never halts the batch: when the run
\* has ended, every row marked for posting has been taken by the loop.
\* The code does not have this property: a RuntimeError raised by get_json is
\* caught nowhere and ends main() with rows left.
C1_BatchNeverHalts == pc \in {"done", "crashed"} => idx = nrows

\* C2: once a stage of a site has failed, no request of a later stage is made
\* for that site. The code does not have this property: a failed VLAN POST is
\* only counted, and a failed VRRP build or POST is followed by ZPA.
C2_FailureAbortsSite ==
    \A a \in 1..Len(events) : \A b \in 1..Len(events) :
        (a < b /\ StageFailed(events[a]))
            => StageRank(events[b].k) <= StageRank(events[a].k)

\* C3: every request that names a site id names the id of the row being
\* processed, never one resolved for an earlier row. The code does not have
\* this property: locals().get("site_id") still holds the earlier row's id.
C3_NoStateFromEarlierRow ==
    \A a \in EventsOfKind({"dns_put", "vlan_load", "vlan_list", "iface_get", "vrrp_build"}) :
        events[a].a \in {"", SiteIdOf(StripLower(row.site_name))}

\* C4: within one site the stages run in the fixed order and none is entered
\* again: events are in stage order, the site is created once, the VLANs are
\* listed once and the VRRP and ZPA requests are made once; a VLAN is posted
\* only with a ready cluster handle; the VRRP step starts only when the VLAN
\* step has returned, after every definition of the file was posted.
C4_StagesInOrder ==
    /\ \A a \in 1..Len(events) : \A b \in 1..Len(events) :
         a < b => StageRank(events[a].k) <= StageRank(events[b].k)
    /\ \A k \in {"create", "vlan_list", "vrrp_post", "zpa"} :
         Cardinality(EventsOfKind({k})) <= 1
    /\ \A b \in EventsOfKind({"vlan_post"}) :
         /\ \E a \in 1..(b - 1) : events[a].k = "lookup" /\ events[a].ok
         /\ gateways_str # << >>
         /\ TruthyInt(cluster_id)
    /\ pc \in {"vrrp", "vrrp_build", "vrrp_exit", "vrrp_post", "zpa"} => vl = VlIdle
    /\ (EventsOfKind({"vrrp_lookup", "iface_get", "vrrp_post", "zpa"}) # {}
        /\ EventsOfKind({"vlan_list"}) # {})
         => Cardinality(EventsOfKind({"vlan_post"})) = Len(VlansForVrrp(row))

\* a site went through VLANs, follow-up updates, VRRP and ZPA
C4_Witness ==
    /\ EventsOfKind({"vlan_post"}) # {}
    /\ EventsOfKind({"vlan_put"}) # {}
    /\ EventsOfKind({"vlan_patch"}) # {}
    /\ EventsOfKind({"vrrp_post"}) # {}
    /\ EventsOfKind({"zpa"}) # {}

\* C5: when polling for the cluster handle is exhausted (after POLL_RETRIES
\* lookups, with no gateway ids), the site fails at the cluster-readiness
\* stage: the failure is the next and last event of the site, so no VLAN is
\* submitted, no VRRP discovery or submission and no ZPA provisioning is made.
C5_ExhaustionFailsSite ==
    /\ rs.pc = "exhausted" => (rs.attempts = POLL_RETRIES /\ rs.gw = << >>)
    /\ \A a \in EventsOfKind({"poll_exhausted"}) :
         /\ a = Len(events) => pc = "resolving"
         /\ a < Len(events) =>
              /\ Len(events) = a + 1
              /\ events[a + 1].k = "cluster_ready"
              /\ ~events[a + 1].ok
              /\ pc \in {"next_row", "done"}
              /\ fail >= 1

\* polling was exhausted although the creation response had given a cluster
\* id, and the site was failed
C5_Witness ==
    /\ Len(events) >= 2
    /\ events[Len(events) - 1].k = "poll_exhausted"
    /\ events[Len(events)].k = "cluster_ready"
    /\ TruthyInt(cluster_id)
    /\ gateways_str = << >>
    /\ pc = "next_row"

----------------------------------------------------------------------------
(* Properties of resolve_gateway_ids_and_cluster *)

\* C6: the resolver returns success at the first lookup that shows gateway
\* ids while a cluster id is known (so it never sleeps after such a lookup);
\* a successful result has gateway ids, none of them empty, and a non-zero
\* cluster id; the result after exhaustion is one the caller treats as not
\* ready.
C6_SuccessWhenBothKnown ==
    /\ rs.pc = "returned" =>
         /\ rs.ready_seen
         /\ rs.gw # << >>
         /\ \A j \in 1..Len(rs.gw) : rs.gw[j] # ""
         /\ TruthyInt(rs.cl)
         /\ ~NotReady(rs.gw, rs.cl)
    /\ (rs.pc \in {"loop", "exhausted"} /\ rs.attempts > 0) => ~rs.ready_seen
    /\ rs.pc = "exhausted" => NotReady(rs.gw, rs.cl)

\* success on a second lookup, with the cluster id taken from the site row
C6_Witness ==
    /\ rs.pc = "returned"
    /\ rs.attempts = 2
    /\ ~TruthyInt(rs.wanted)
    /\ TruthyInt(rs.cl)

\* max(1, retries), written out
LookupBound == IF rs.retries > 1 THEN rs.retries ELSE 1

\* what C7 says of every state of the resolver
C7_Bounded ==
    /\ rs.attempts <= LookupBound
    /\ rs.sleeps = IF rs.pc \in {"returned", "raised"} THEN rs.attempts - 1
                   ELSE rs.attempts
    /\ rs.pc = "exhausted" =>
         /\ rs.attempts = LookupBound
         /\ rs.gw = << >>
         /\ rs.cl = IF TruthyInt(rs.wanted) THEN rs.wanted ELSE None

\* C7: the resolver makes at most max(1, retries) lookups and sleeps once
\* after each lookup that did not succeed; on exhaustion it returns no gateway
\* ids and, as cluster id, the caller's hint or nothing; and it always
\* terminates: it returns, gives up or raises.
C7_TerminatesWithinRetries ==
    /\ []C7_Bounded
    /\ <>(rs.pc \in {"returned", "exhausted", "raised"})

\* exhaustion after MaxRetries lookups, with the hint handed back
C7_Witness ==
    /\ rs.pc = "exhausted"
    /\ rs.retries = MaxRetries
    /\ rs.sleeps = MaxRetries
    /\ TruthyInt(rs.cl)

----------------------------------------------------------------------------
(* Properties of _request_with_auto_refresh *)

\* C8: a call sends at most two requests and refreshes at most once; a first
\* response other than 401 is returned with no refresh and no retry; a 401
\* is followed by one refresh; after a successful refresh the call is sent
\* once more, with the new token; after a failed refresh the 401 is returned
\* and nothing more is sent.
C8_RefreshOnceRetryOnce ==
    /\ rq.refreshes <= 1
    /\ Len(rq.sent) <= 2
    /\ rq.pc = "return" =>
         /\ rq.first # 401 =>
              (rq.refreshes = 0 /\ Len(rq.sent) = 1 /\ rq.status = rq.first)
         /\ rq.first = 401 => rq.refreshes = 1
         /\ (rq.first = 401 /\ rq.refreshed) =>
              /\ Len(rq.sent) = 2
              /\ rq.sent[2] = rq.bearer
              /\ rq.sent[2] # rq.sent[1]
         /\ (rq.first = 401 /\ ~rq.refreshed) =>
              /\ Len(rq.sent) = 1
              /\ rq.status = 401
              /\ rq.sent[1] = rq.bearer

\* a call whose retry with the new token came back 401 again
C8_Witness ==
    /\ rq.pc = "return"
    /\ rq.first = 401
    /\ rq.refreshed
    /\ Len(rq.sent) = 2
    /\ rq.status = 401

----------------------------------------------------------------------------
(* Properties of build_vrrp_payload *)

\* the names gateway g reported as lan or wan in the interfaces response
ReportedTrackable(items, g) ==
    UNION { IfaceNamesOfType(items[j], {"lan", "wan"}) :
              j \in { m \in 1..Len(items) : items[m].gateway_id = g } }

BuiltPayload == vr.pc = "done" /\ vr.out.kind = "payload"

\* C9: every name in the track list of a built payload was reported as lan or
\* wan by every target gateway. The code does not have this property: with
\* a link override in the CSV, a peer that is absent from the response takes
\* no part in the intersection and the payload is built all the same.
C9_TrackedOnEveryPeer ==
    BuiltPayload =>
        \A n \in SeqToSet(vr.out.track_value) :
            \A g \in SeqToSet(GatewayKeys(vr.gateways)) :
                n \in ReportedTrackable(vr.items, g)

\* C10: every entry of the track list of a built payload, candidate or extra,
\* is in common_trackables, is not in mgmt_names, and is not the link
\* interface the payload gives for any peer.
C10_TrackListFiltered ==
    BuiltPayload =>
        LET inv == DiscoverIfaceInventory(vr.items, vr.gateways)
        IN  /\ vr.out.track_value # << >>
            /\ \A n \in SeqToSet(vr.out.track_value) :
                 /\ n \in inv.common_trackables
                 /\ n \notin inv.mgmt_names
                 /\ \A k \in DOMAIN vr.out.vrrp_interface :
                      vr.out.vrrp_interface[k] # n

\* a payload without override whose peers have different ha interfaces and
\* whose track list is an extra of the CSV
C10_Witness ==
    /\ BuiltPayload
    /\ vr.row.vrrp_link_interface = ""
    /\ vr.out.vrrp_interface["g1"] # vr.out.vrrp_interface["g2"]
    /\ vr.row.vrrp_track_extra = <<" Ge5">>
    /\ vr.row.wan_cols[1] = ""
    /\ vr.vlans = << >>
    /\ vr.out.track_value = <<"ge5">>

----------------------------------------------------------------------------
(* Properties of discover_iface_inventory *)

\* the target gateways that have an entry in the interfaces response
PresentTargets ==
    { g \in SeqToSet(GatewayKeys(vr.gateways)) :
        \E j \in 1..Len(vr.items) : vr.items[j].gateway_id = g }

C12_OverrideWins ==
    (BuiltPayload /\ vr.row.vrrp_link_interface # "") =>
        LET want == IF vr.row.vrrp_link_interface = "ge3.100" THEN "ge3" ELSE "ge7"
        IN  /\ \A k \in SeqToSet(GatewayKeys(vr.gateways)) :
                 vr.out.vrrp_interface[k] = want
            /\ vr.out.link_iface_used = want
            /\ want \notin SeqToSet(vr.out.track_value)

\* the override ge3.100 while ge3 is a WAN candidate that both peers report
\* as lan or wan, and discovery found ha interfaces of another name
C12_Witness ==
    /\ BuiltPayload
    /\ vr.row.vrrp_link_interface = "ge3.100"
    /\ vr.row.wan_cols[1] = "ge3"
    /\ "ge3" \in DiscoverIfaceInventory(vr.items, vr.gateways).common_trackables
    /\ FirstHaChoices(DiscoverIfaceInventory(vr.items, vr.gateways)) = {"ge7"}

----------------------------------------------------------------------------
(* Properties of the VRRP build and of its use by configure_vrrp *)

\* the target gateways for which the response shows no ha interface
PeersWithoutHa ==
    { g \in SeqToSet(GatewayKeys(vr.gateways)) :
        \A j \in 1..Len(vr.items) :
            vr.items[j].gateway_id = g => IfaceNamesOfType(vr.items[j], {"ha"}) = {} }

\* C13: for an HA site without link override, when a target gateway has no
\* discovered ha interface the build raises, and its message names every such
\* gateway. The code does not have this property: the build raises, but the
\* message is a fixed text that names no gateway.
C13_MissingPeerNamed ==
    (/\ vr.pc = "done"
     /\ Len(vr.gateways) > 1
     /\ vr.row.vrrp_link_interface = ""
     /\ PeersWithoutHa # {})
        => /\ vr.out.kind = "exit"
           /\ vr.out.why = "ha_link_unknown"
           /\ PeersWithoutHa \subseteq vr.out.named

\* the track list build_vrrp_payload computes from the arguments held in vr
\* once link is excluded
TrackFor(link) ==
    LET inv == DiscoverIfaceInventory(vr.items, vr.gateways)
    IN  MergeExtras(vr.row.vrrp_track_extra, inv, link,
                    TrackFinal(RawTrack(vr.row, vr.vlans), inv, link))

\* C14: a build whose track list is empty raises and configure_vrrp returns
\* without a POST; a payload that was built, and so every payload posted, has
\* a track list that is not empty, the same for the function's own filter.
C14_NoEmptyTrack ==
    /\ (pc = "vrrp_post") <=> (vr.pc = "built")
    /\ (pc = "vrrp_exit") <=> (vr.pc = "exit")
    /\ vr.pc = "built" =>
         /\ vr.out.kind = "payload"
         /\ vr.out.track_value # << >>
         /\ vr.out.track_value = TrackFor(vr.out.link_iface_used)
         /\ \A k \in DOMAIN vr.out.track_interface :
              vr.out.track_interface[k] # << >>
    /\ vr.pc = "exit" =>
         /\ vr.out.kind = "exit"
         /\ (CsvLink(vr.row) # "" => TrackFor(CsvLink(vr.row)) = << >>)
    /\ \A a \in EventsOfKind({"vrrp_post"}) :
         \E b \in 1..(a - 1) : events[b].k = "vrrp_build" /\ events[b].ok
    /\ (\E a \in EventsOfKind({"vrrp_build"}) : ~events[a].ok)
         => EventsOfKind({"vrrp_post"}) = {}

\* the build of an HA site raised because nothing was left to track
C14_Witness ==
    /\ pc = "vrrp_exit"
    /\ vr.out.kind = "exit"
    /\ vr.out.why = "track_empty"

\* the override as the payload carries it
OverrideName == IF vr.row.vrrp_link_interface = "ge3.100" THEN "ge3" ELSE "ge7"

\* C15: a built payload has one virtual router id; its track-interface map
\* has exactly the target gateways as keys, each with the same track list;
\* its link-interface map has exactly the target gateways as keys, each with
\* the override when the CSV gives one and else with an ha interface that
\* this gateway itself reported.
C15_PayloadShape ==
    BuiltPayload =>
        LET keys == SeqToSet(GatewayKeys(vr.gateways))
        IN  /\ vr.out.virtual_router_id \in 1..255
            /\ DOMAIN vr.out.track_interface = keys
            /\ \A k \in keys : vr.out.track_interface[k] = vr.out.track_value
            /\ DOMAIN vr.out.vrrp_interface = keys
            /\ \A k \in keys :
                 IF vr.row.vrrp_link_interface # ""
                 THEN vr.out.vrrp_interface[k] = OverrideName
                 ELSE \E j \in 1..Len(vr.items) :
                        /\ vr.items[j].gateway_id = k
                        /\ vr.out.vrrp_interface[k]
                             \in IfaceNamesOfType(vr.items[j], {"ha"})

\* a payload without override whose peers have ha interfaces ge3 and ge7
C15_Witness ==
    /\ BuiltPayload
    /\ vr.row.vrrp_link_interface = ""
    /\ vr.out.vrrp_interface["g1"] = "ge3"
    /\ vr.out.vrrp_interface["g2"] = "ge7"
    /\ Len(vr.out.track_value) >= 1

\* C16: for a site with a single gateway the VRRP step makes no site lookup,
\* no interface discovery and no POST, the build for its gateway string
\* returns standalone, and the site is not counted as failed.
C16_StandaloneSkipsVrrp ==
    (/\ Len(gateways_str) = 1
     /\ pc \in {"dns", "dns_lookup", "dns_put", "vlans", "vlan_run", "vrrp",
                "vrrp_build", "vrrp_exit", "vrrp_post", "zpa", "next_row"})
        => /\ pc \notin {"vrrp_build", "vrrp_exit", "vrrp_post"}
           /\ EventsOfKind({"vrrp_lookup", "iface_get", "vrrp_build", "vrrp_post"}) = {}
           /\ EventsOfKind({"validate", "template", "render", "cluster_ready"}) = {}
           /\ vr = VrIdle
           /\ \A items \in MainDiscovery :
                BuildVrrpPayload(gateways_str, row, VlansForVrrp(row), items, "")
                    = Standalone

\* a single-gateway site that went on to ZPA provisioning
C16_Witness ==
    /\ Len(gateways_str) = 1
    /\ pc = "next_row"
    /\ EventsOfKind({"zpa"}) # {}
    /\ EventsOfKind({"vlan_post"}) # {}

\* the id the claim gives each text of the vrrp_vrid column
ExpectedVrid(text) ==
    CASE text = "16"  -> 16
      [] text = " 7 " -> 7
      [] text = "1"   -> 1
      [] text = "255" -> 255
      [] text = "0"   -> 1
      [] text = "-5"  -> 1
      [] text = "256" -> 255
      [] OTHER        -> 16

\* C17: whatever the text of vrrp_vrid, the id of a built payload is in
\* 1..255: the number itself when it is in range, the nearer end of the range
\* when it is not, and 16 when the text is empty or no number; the text never
\* makes the build raise.
C17_VridClamped ==
    /\ BuiltPayload =>
         /\ vr.out.virtual_router_id \in 1..255
         /\ vr.out.virtual_router_id = ExpectedVrid(vr.row.vrrp_vrid)
    /\ (vr.pc = "done" /\ vr.out.kind = "exit")
         => vr.out.why \in {"ha_link_unknown", "track_empty"}

\* the text 256 was clamped to 255
C17_Witness ==
    /\ BuiltPayload
    /\ vr.row.vrrp_vrid = "256"
    /\ vr.out.virtual_router_id = 255

\* the scenario: gateways g1 and g2 with the scenario's response, no link
\* override, ge3 as the only WAN interface of the row, no extras
ScenarioCase ==
    /\ vr.pc = "done"
    /\ vr.gateways = <<"g1", "g2">>
    /\ vr.items = ScenarioDiscovery
    /\ vr.row.vrrp_link_interface = ""
    /\ vr.row.vrrp_track_extra = << >>
    /\ vr.row.wan_cols = <<"ge3", "", "", "", "", "">>

\* C18 as stated: in the scenario the track list is {ge3, ge5}. The code
\* tracks only names the CSVs declare: with no VLAN on ge5 the list is ge3.
C18_ScenarioTrackStated ==
    ScenarioCase =>
        /\ vr.out.kind = "payload"
        /\ SeqToSet(vr.out.track_value) = {"ge3", "ge5"}

\* C18, amended: in the scenario a payload is built with link ge7 for both
\* peers, and its track list holds the declared names that are in the
\* intersection {ge3, ge5}: ge3, followed by ge5 exactly when a VLAN
\* definition is on ge5; ge6 and ge7 are never tracked.
C18_ScenarioTrack ==
    ScenarioCase =>
        /\ vr.out.kind = "payload"
        /\ vr.out.link_iface_used = "ge7"
        /\ vr.out.track_value =
             IF \E j \in 1..Len(vr.vlans) : vr.vlans[j].interface = <<"ge5.20">>
             THEN <<"ge3", "ge5">> ELSE <<"ge3">>

\* the scenario with a VLAN definition on ge5.20
C18_Witness ==
    /\ ScenarioCase
    /\ vr.vlans # << >>
    /\ vr.out.kind = "payload"
    /\ vr.out.track_value = <<"ge3", "ge5">>

----------------------------------------------------------------------------
(* Properties of template resolution *)

\* the catalog entries whose name is the row's template_name after
\* strip().lower()
NameMatches ==
    { j \in 1..Len(templates.items) :
        StripLower(templates.items[j].name) = StripLower(row.template_name) }

\* the row names a template and its resolution is over
AfterResolveByName ==
    /\ row.template_name # ""
    /\ templates.loaded
    /\ pc \notin {"validate", "template"}

\* C19: a row resolved by name carries an id only if exactly one catalog
\* entry has that name, and then it is this entry's id; a name that matches
\* no entry or several ends the row as a template failure, before any site
\* is created. The code does not have this property: for such a name the
\* catalog is fetched once more for the message, and when that GET fails the
\* RuntimeError ends main() instead of failing the row.
C19_SingleMatchOrFailure ==
    /\ (AfterResolveByName /\ row.template_id # "") =>
         /\ Cardinality(NameMatches) = 1
         /\ \A j \in NameMatches : row.template_id = templates.items[j].id
    /\ (AfterResolveByName /\ Cardinality(NameMatches) # 1) =>
         /\ row.template_id = ""
         /\ EventsOfKind({"create"}) = {}
         /\ pc \in {"next_row", "done"}
         /\ events # << >>
         /\ events[Len(events)] = Event("template", FALSE, "")

\* what C20 says of every state: _load has fetched at most once, and a row
\* resolved by name has the id the loaded catalog gives
C20_OneLoad ==
    /\ templates.loads <= 1
    /\ templates.loaded => templates.loads = 1
    /\ (AfterResolveByName /\ row.template_id # "") =>
         row.template_id = TemplateResolve(templates.items, row.template_name)

\* C20: however many rows are resolved by name in one run, TemplateResolver
\* fetches the catalog at most once; once it is loaded no step fetches it
\* again through _load or changes it, so every later call answers from it.
C20_CatalogFetchedOnce ==
    /\ []C20_OneLoad
    /\ [][templates.loaded =>
            /\ templates'.loaded
            /\ templates'.items = templates.items
            /\ templates'.loads = templates.loads]_vars

\* the second row of a run was resolved by name without a catalog GET
C20_Witness ==
    /\ idx = 2
    /\ pc = "render"
    /\ row.template_name # ""
    /\ row.template_id # ""
    /\ EventsOfKind({"template_get"}) = {}
    /\ templates.loads = 1

----------------------------------------------------------------------------
(* process_vlans_for_site on its own *)

\* VLAN files for the call: one definition; one without interface or with a
\* per-peer pair; two with the same name and tag on two interfaces; two with
\* different names and tags
VlanDefLists ==
    { <<Vlan("Users", "20", <<"ge5">>, "10.0.20.1", e1, s1)>> :
        e1 \in BOOLEAN, s1 \in BOOLEAN }
    \cup
    { <<Vlan("Users", "20", i, "10.0.20.1", TRUE, TRUE)>> :
        i \in {<<"">>, <<"ge5", "ge6">>} }
    \cup
    { <<Vlan("users", "20", <<"ge5">>, "10.0.20.1", e1, s1),
        Vlan(n2, t2, <<"ge6">>, "10.0.21.1", e2, s2)>> :
        e1 \in BOOLEAN, s1 \in BOOLEAN, e2 \in BOOLEAN, s2 \in BOOLEAN,
        n2 \in {"users", "voice"}, t2 \in {"20", "30"} }

\* main() line 1117 has called process_vlans_for_site for a created site, with
\* the gateway ids of a standalone or of an HA site; the file has been loaded
InitVlans ==
    /\ pc = "vlan_run"
    /\ dry_run = FALSE
    /\ csv = <<"1">>
    /\ nrows = 1
    /\ idx = 1
    /\ row = BaseRow("siteA")
    /\ ok = 0
    /\ fail = 0
    /\ site_id = "idA"
    /\ gateways_str \in {<<"g1">>, <<"g1", "g2">>}
    /\ cluster_id = Some(7)
    /\ templates = [loaded |-> FALSE, items |-> << >>, fetches |-> 0, loads |-> 0]
    /\ dns_i = 0
    /\ events = << >>
    /\ vl \in { [pc |-> "post", vlans |-> vs, n |-> 1, vlan_ok |-> 0,
                 vlan_fail |-> 0, current |-> << >>] : vs \in VlanDefLists }
    /\ rs = RsIdle
    /\ rq = RqIdle
    /\ vr = VrIdle

NextVlans == VlanPost \/ VlanList \/ VlanEnable \/ VlanShare \/ VlanReturn

SpecVlans == InitVlans /\ [][NextVlans]_vars

----------------------------------------------------------------------------
(* Claims C21 to C30 *)

\* C21: over a whole run, whatever the number of rows and whether their
\* template names resolve or not, GET /templates is sent at most once.
C21_CatalogQueriedOnce == templates.fetches <= 1

\* definition j of the file is in the re-fetched list with name, tag,
\* interface and gateway address as vlan_to_v2_payload submitted them
PersistedUnchanged(j) ==
    \E i \in 1..Len(vl.current) :
        vl.current[i] = PersistedAs(vl.vlans[j], gateways_str, VlanIds[j])

\* C22: round trip of the id correlation: a definition whose persisted record
\* comes back from the re-fetch exactly as submitted resolves to the id of
\* that record, for standalone and for HA sites. The code does not have this
\* property: for an HA site the submitted interface is doubled, the composite
\* key of the record differs from the key of the definition, and the match by
\* name and tag takes the first record of that name and tag.
C22_RoundTripOwnId ==
    (pc = "vlan_run" /\ vl.pc \in {"enable", "share"}) =>
        \A j \in 1..Len(vl.vlans) :
            PersistedUnchanged(j) => FindIdFor(vl.vlans[j], vl.current) = VlanIds[j]

\* what the follow-up calls of the current site ask of the backend: the PUT of
\* line 886 carries status "provisioned", the PATCH of line 907 carries
\* share_over_vpn True; the code sends no call with another value
UpdateCalls ==
    { [id |-> events[a].a, field |-> "enabled", value |-> TRUE] :
        a \in EventsOfKind({"vlan_put"}) }
    \cup
    { [id |-> events[a].a, field |-> "share_over_vpn", value |-> TRUE] :
        a \in EventsOfKind({"vlan_patch"}) }

\* C23: when the follow-up loops are over, every definition matched to a
\* persisted record has been the subject of an update call for its declared
\* enabled state and of one for its declared sharing state. The code does not
\* have this property: a definition declared disabled, or declared not
\* shared, is skipped by the loops, so no call sets its record to that state.
C23_DrivenToDeclared ==
    (pc = "vlan_run" /\ vl.pc = "done") =>
        \A j \in 1..Len(vl.vlans) :
            LET v   == vl.vlans[j]
                vid == FindIdFor(v, vl.current)
            IN  vid # "" =>
                  /\ [id |-> vid, field |-> "enabled", value |-> v.enabled]
                        \in UpdateCalls
                  /\ [id |-> vid, field |-> "share_over_vpn",
                      value |-> v.share_over_vpn] \in UpdateCalls

\* the step just taken printed the warning "could not match VLAN id"
WarnedNow ==
    /\ Len(events') = Len(events) + 1
    /\ events'[Len(events')].k = "vlan_warn"

\* C24: a definition that cannot be matched to a persisted record only
\* produces a warning. The step that warns goes on with the next definition
\* or the next loop and touches neither counter; when the loops are over,
\* every matched definition declared enabled has had its PUT and every
\* matched definition declared shared its PATCH; after a warning the VLAN
\* step still returns to main() at the VRRP stage, without a failure counted.
C24_WarningOnly ==
    /\ [][WarnedNow =>
            /\ pc' = "vlan_run"
            /\ vl'.pc \in {"enable", "share", "done"}
            /\ vl'.vlans = vl.vlans /\ vl'.current = vl.current
            /\ (vl'.pc = vl.pc => vl'.n = vl.n + 1)
            /\ fail' = fail /\ ok' = ok]_vars
    /\ []((pc = "vlan_run" /\ vl.pc = "done") =>
            \A j \in 1..Len(vl.vlans) :
                LET v   == vl.vlans[j]
                    vid == FindIdFor(v, vl.current)
                IN  vid # "" =>
                      /\ v.enabled =>
                           \E a \in EventsOfKind({"vlan_put"}) : events[a].a = vid
                      /\ v.share_over_vpn =>
                           \E a \in EventsOfKind({"vlan_patch"}) : events[a].a = vid)
    /\ [][(pc = "vlan_run" /\ EventsOfKind({"vlan_warn"}) # {}) =>
            /\ pc' \in {"vlan_run", "vrrp"}
            /\ (vl.pc = "done" => pc' = "vrrp")
            /\ fail' = fail /\ ok' = ok]_vars

\* an HA site whose first definition could not be matched: the warning was
\* followed by the PATCH of the second definition, by the VRRP POST, and no
\* failure was counted
C24_Witness ==
    /\ pc = "zpa"
    /\ fail = 0
    /\ \E a \in EventsOfKind({"vlan_warn"}) :
         \E b \in EventsOfKind({"vlan_patch"}) : a < b
    /\ EventsOfKind({"vrrp_post"}) # {}

\* C25: when the run has gone through all its rows, the exit status is
\* non-zero if a site failed validation or creation, and zero if none failed.
\* The code does not have this property: fail is counted and never read.
C25_ExitStatusTellsFailure == pc = "done" => (fail > 0 <=> ExitStatus # 0)

\* C26: at the end of a run every row selected for posting has one recorded
\* outcome: ok and fail add up to the number of selected rows, in dry-run and
\* in real runs. The code does not have this property: ok is incremented in
\* the dry-run branch only.
C26_OneOutcomePerRow == pc = "done" => ok + fail = nrows

\* the HA declaration of a row is inconsistent: a second-peer WAN field
\* (wan1_ip, wan1_mask, wan1_gw, wan1_interface_name) is set and there is no
\* second gateway name, or there is one and some second-peer field is missing
InconsistentHa(r) ==
    LET peer == {r.wan1[1], r.wan1[2], r.wan1[3], r.wan_cols[5]}
    IN  \/ r.gateway_name_b = "" /\ peer # {""}
        \/ r.gateway_name_b # "" /\ "" \in peer

\* C27: a row with an inconsistent HA declaration is failed before any
\* request is made for it: it is only ever at the validation step or past its
\* failure, with the validation failure as its only event; the validation
\* step counts one failure and leaves the template cache alone; and the loop
\* takes the next row whenever one is left.
C27_InconsistentHaFailsEarly ==
    /\ []((idx > 0 /\ InconsistentHa(row)) =>
            /\ pc \in {"validate", "next_row", "done"}
            /\ pc = "validate" => events = << >>
            /\ pc # "validate" => events = <<Event("validate", FALSE, "")>>
            /\ rs = RsIdle /\ vl = VlIdle /\ vr = VrIdle)
    /\ [][(pc = "validate" /\ InconsistentHa(row)) =>
            /\ pc' = "next_row"
            /\ fail' = fail + 1
            /\ ok' = ok
            /\ templates' = templates
            /\ site_id' = site_id]_vars
    /\ [][(pc = "next_row" /\ idx < nrows) =>
            (pc' = "validate" /\ idx' = idx + 1)]_vars

\* the first of two rows names a second gateway without its WAN fields; it
\* was failed and the loop is about to take the second row
C27_Witness ==
    /\ InconsistentHa(row)
    /\ row.gateway_name_b # ""
    /\ pc = "next_row"
    /\ idx = 1 /\ nrows = 2
    /\ fail = 1
    /\ events = <<Event("validate", FALSE, "")>>

\* C28: in a dry run no state-changing request is made for any row: no site
\* creation, no VLAN POST, PUT or PATCH, no private-DNS PUT, no VRRP POST, and
\* no write or sign-in request to ZPA. The code does not have this property:
\* the dry-run branch calls provision_zpa_for_site, which signs in to ZPA
\* before it looks at dry_run.
C28_DryRunSendsNothing ==
    dry_run =>
        EventsOfKind({"create", "dns_put", "vlan_post", "vlan_put", "vlan_patch",
                      "vrrp_post", "zpa", "zpa_login"}) = {}

\* C29: for one HA site at most one VRRP configuration is submitted: the
\* site's events hold at most one VRRP POST, sent for a site with several
\* gateways to the endpoint of the cluster id the resolver returned for it,
\* and nothing of the VRRP stage follows it; the POST ends the VRRP step
\* whatever its answer, so a failed submission is not repeated.
C29_OneVrrpSubmission ==
    /\ [](/\ Cardinality(EventsOfKind({"vrrp_post"})) <= 1
          /\ \A a \in EventsOfKind({"vrrp_post"}) :
               /\ events[a].cl = cluster_id
               /\ TruthyInt(cluster_id)
               /\ Len(gateways_str) > 1
               /\ ~dry_run
               /\ \A b \in (a + 1)..Len(events) : StageRank(events[b].k) = 8)
    /\ [][pc = "vrrp_post" =>
            /\ pc' = "zpa"
            /\ Len(events') = Len(events) + 1
            /\ events'[Len(events')].k = "vrrp_post"
            /\ cluster_id' = cluster_id
            /\ fail' = fail]_vars
    /\ [][cluster_id' # cluster_id =>
            (pc = "next_row" \/ (pc = "resolving" /\ cluster_id' = rs.cl))]_vars

\* the VRRP POST of a site failed and the site went on to ZPA provisioning
C29_Witness ==
    /\ \E a \in EventsOfKind({"vrrp_post"}) : ~events[a].ok
    /\ EventsOfKind({"zpa"}) # {}
    /\ pc = "next_row"

\* C30: ZPA provisioning is invoked only for rows that ask for it, only when
\* the VRRP step is over, in a real run with the cluster id the resolver
\* returned for the row; its outcome changes nothing of the earlier stages
\* and the loop goes on to the next row. The code does not have this
\* property: a failed ZPA sign-in raises SystemExit, which ends main().
C30_ZpaOptionalTail ==
    /\ [](\A a \in EventsOfKind({"zpa_login", "zpa", "zpa_dry"}) :
            /\ WantsZpa(row)
            /\ vr = VrIdle /\ vl = VlIdle
            /\ \A b \in 1..(a - 1) : StageRank(events[b].k) <= 8
            /\ events[a].k = "zpa" =>
                 /\ ~dry_run
                 /\ events[a].cl = cluster_id
                 /\ TruthyInt(cluster_id)
                 /\ gateways_str # << >>)
    /\ [][pc = "zpa" =>
            /\ pc' = "next_row"
            /\ SubSeq(events', 1, Len(events)) = events
            /\ UNCHANGED <<ok, fail, site_id, gateways_str, cluster_id, idx, row>>]_vars

----------------------------------------------------------------------------
(* Claims C31 to C39 *)

\* C31: with a cluster-id hint from the caller, the resolver returns the hint
\* as the cluster id only once a lookup has confirmed it: the site row shows
\* gateway ids and its own cluster id, when it reports one, equals the hint.
\* The code does not have this property: with a hint, the row's cluster id is
\* never read for the result nor compared with the hint.
C31_HintConfirmed ==
    (rs.pc = "returned" /\ TruthyInt(rs.wanted)) =>
        /\ rs.cl = rs.wanted
        /\ rs.gw # << >>
        /\ rs.ready_seen
        /\ TruthyInt(rs.found_cluster) => rs.found_cluster = rs.wanted

\* C32: every polling attempt makes its own lookup, and the row the resolver
\* reads is one whose name equals the requested name after strip().lower():
\* the gateway ids and the cluster id of a row that the search returned only
\* because its name contains the requested one never reach the result.
C32_ExactNameFreshLookup ==
    /\ [](rs.pc = "returned" =>
            /\ rs.ready_seen
            /\ rs.rows_len >= 1
            /\ \A j \in 1..Len(rs.gw) : rs.gw[j] \notin SeqToSet(DecoyRow(rs.site).gateways)
            /\ rs.found_cluster # DecoyRow(rs.site).cluster
            /\ rs.cl # DecoyRow(rs.site).cluster)
    /\ [][(rs.pc = "loop" /\ rs'.pc # "exhausted") =>
            /\ rs'.attempts = rs.attempts + 1
            /\ rs'.pc = "loop" => rs'.sleeps = rs.sleeps + 1]_vars

\* the call returned on its second lookup, whose response held the row of
\* another site before the row of the requested one
C32_Witness ==
    /\ rs.pc = "returned"
    /\ rs.attempts = 2
    /\ rs.rows_len = 2
    /\ rs.gw = <<"g1", "g2">>

\* the smallest element of a non-empty set of numbers
Least(S) == CHOOSE n \in S : \A m \in S : n <= m

\* where the inputs of a build declare interface x: the first recognised WAN
\* column that holds it; else, unless x is "mgmt", the first VLAN definition
\* whose interface has base name x; else the first CSV extra that names it;
\* 0 when no input declares x
DeclaredAt(r, vlans, x) ==
    LET wan == { i \in 1..Len(r.wan_cols) : CleanIface(r.wan_cols[i]) = x }
        lan == { j \in 1..Len(vlans) :
                   BeforeDot(CleanIface(vlans[j].interface[1])) = x }
        ext == { k \in 1..Len(r.vrrp_track_extra) :
                   CleanIface(r.vrrp_track_extra[k]) = x }
    IN  IF x = "" THEN 0
        ELSE IF wan # {} THEN Least(wan)
        ELSE IF lan # {} /\ x # "mgmt" THEN Len(r.wan_cols) + Least(lan)
        ELSE IF ext # {} THEN Len(r.wan_cols) + Len(vlans) + Least(ext)
        ELSE 0

\* list holds declared names only, each once, in the order of declaration
InDeclaredOrder(r, vlans, list) ==
    /\ \A a \in 1..Len(list) : DeclaredAt(r, vlans, list[a]) > 0
    /\ \A a \in 1..Len(list) : \A b \in 1..Len(list) :
         a < b => DeclaredAt(r, vlans, list[a]) < DeclaredAt(r, vlans, list[b])

\* C33: the candidate list and the final track list hold no name twice and
\* keep the order WAN names by recognised column, then LAN base names by VLAN
\* definition (without "mgmt" and the WAN names), then the accepted extras as
\* declared; the candidate list holds no extra.
C33_TrackListsOrdered ==
    vr.pc \in {"args", "done"} =>
        /\ InDeclaredOrder(vr.row, vr.vlans, RawTrack(vr.row, vr.vlans))
        /\ \A a \in 1..Len(RawTrack(vr.row, vr.vlans)) :
             DeclaredAt(vr.row, vr.vlans, RawTrack(vr.row, vr.vlans)[a])
                <= Len(vr.row.wan_cols) + Len(vr.vlans)
        /\ (vr.pc = "done" /\ vr.out.kind = "payload") =>
             InDeclaredOrder(vr.row, vr.vlans, vr.out.track_value)

\* a row that names ge3 in two WAN columns and a VLAN on ge5.20: the build
\* tracks ge3 once, then ge5
C33_Witness ==
    /\ vr.pc = "done"
    /\ vr.out.kind = "payload"
    /\ vr.row.wan_cols[1] = "GE3 " /\ vr.row.wan_cols[5] = "ge3"
    /\ vr.vlans # << >>
    /\ vr.out.track_value = <<"ge3", "ge5">>

\* C34: the interface submitted for a definition is the declared one doubled
\* as "X,X" exactly when the site has several gateways and the declared
\* interface is non-empty and not a per-peer pair; otherwise it is the declared
\* one; applying the rule to the submitted value changes nothing. Read on the
\* records the re-fetch returns as submitted, one per definition.
C34_InterfaceDoubledForHa ==
    (pc = "vlan_run" /\ vl.pc \in {"enable", "share", "done"}
     /\ Len(vl.current) = Len(vl.vlans)) =>
        \A j \in 1..Len(vl.vlans) :
            LET decl  == vl.vlans[j].interface
                sub   == vl.current[j].interface
                plain == Len(decl) = 1 /\ decl[1] # ""
            IN  /\ (Len(gateways_str) > 1 /\ plain) => sub = <<decl[1], decl[1]>>
                /\ (Len(gateways_str) <= 1 \/ ~plain) => sub = decl
                /\ MaybeDupInterfaceForHa(sub, gateways_str) = sub

\* an HA site whose definition on ge5 came back from the re-fetch as "ge5,ge5"
C34_Witness ==
    /\ pc = "vlan_run"
    /\ vl.pc = "enable"
    /\ Len(gateways_str) = 2
    /\ Len(vl.current) = 1
    /\ vl.vlans[1].interface = <<"ge5">>
    /\ vl.current[1].interface = <<"ge5", "ge5">>

\* the VLAN POSTs made so far for the current site, in the order made
VlanPosts == SelectSeq(events, LAMBDA e : e.k = "vlan_post")

\* C35: the VLAN step POSTs every definition of the file once, in file order,
\* going on after a failed POST; vlan_ok and vlan_fail count the POSTs by
\* outcome and add up to the number of definitions; the re-fetch and every
\* follow-up call come after the last POST.
C35_EachDefinitionSubmittedOnce ==
    pc = "vlan_run" =>
        LET made == IF vl.pc = "post" THEN vl.n - 1 ELSE Len(vl.vlans)
        IN  /\ Len(VlanPosts) = made
            /\ \A j \in 1..made : VlanPosts[j].a = vl.vlans[j].name
            /\ vl.vlan_ok = Cardinality({ j \in 1..made : VlanPosts[j].ok })
            /\ vl.vlan_fail = Cardinality({ j \in 1..made : ~VlanPosts[j].ok })
            /\ vl.vlan_ok + vl.vlan_fail = made
            /\ \A a \in EventsOfKind({"vlan_list", "vlan_warn", "vlan_put",
                                      "vlan_patch"}) :
                 /\ vl.pc # "post"
                 /\ \A b \in EventsOfKind({"vlan_post"}) : b < a

\* the first of two POSTs failed, the second was made and succeeded, and the
\* re-fetch has taken place
C35_Witness ==
    /\ pc = "vlan_run"
    /\ vl.pc = "enable"
    /\ Len(vl.vlans) = 2
    /\ Len(VlanPosts) = 2
    /\ ~VlanPosts[1].ok /\ VlanPosts[2].ok
    /\ vl.vlan_ok = 1 /\ vl.vlan_fail = 1

\* the catalog entries whose name is the given one after strip().lower()
NamedEntries(items, name) ==
    { j \in 1..Len(items) : StripLower(items[j].name) = StripLower(name) }

\* C36: main() changes the row it works on in one way only, by writing the
\* resolved template id into a row that had none, and only when the name
\* resolved (one catalog entry of that name, with an id); a step of template
\* resolution that fails the site or ends the run leaves the row as it was;
\* a row that carries a template id passes the step without a catalog fetch.
C36_RowOnlyGetsTemplateId ==
    /\ [][(row' # row /\ pc # "next_row") =>
            /\ pc = "template" /\ pc' = "render"
            /\ row.template_id = "" /\ row.template_name # ""
            /\ row'.template_id # ""
            /\ row' = [row EXCEPT !.template_id = row'.template_id]
            /\ \E j \in 1..Len(templates'.items) :
                 /\ NamedEntries(templates'.items, row.template_name) = {j}
                 /\ templates'.items[j].id = row'.template_id]_vars
    /\ [][(pc = "template" /\ pc' # "render") => row' = row]_vars
    /\ [][(pc = "template" /\ row.template_id # "") =>
            /\ row' = row
            /\ templates' = templates
            /\ events' = events
            /\ pc' = "render"]_vars

\* a row without template_id whose template_name 'tpla ' was looked up in the
\* catalog now carries the id of the template TplA
C36_Witness ==
    /\ pc = "render"
    /\ idx = 1
    /\ row.template_name = "tpla "
    /\ row.template_id = "t1"
    /\ EventsOfKind({"template_get"}) # {}

\* the interface names the inputs of the build declare: the recognised WAN
\* columns of the row, the base names of the VLAN definitions' interfaces,
\* and the CSV extras
DeclaredNames(r, vlans) ==
    ({ CleanIface(r.wan_cols[i]) : i \in 1..Len(r.wan_cols) }
     \cup { BeforeDot(CleanIface(vlans[j].interface[1])) : j \in 1..Len(vlans) }
     \cup { CleanIface(r.vrrp_track_extra[k]) : k \in 1..Len(r.vrrp_track_extra) })
    \ {""}

\* the names every target peer reports as lan or wan that no input declares
UndeclaredCommon ==
    DiscoverIfaceInventory(vr.items, vr.gateways).common_trackables
    \ DeclaredNames(vr.row, vr.vlans)

\* C37: a built track list holds declared names only: none of the interfaces
\* that discovery reports on every peer without any input declaring them is
\* tracked, for any peer of the payload.
C37_OnlyDeclaredTracked ==
    (vr.pc = "done" /\ vr.out.kind = "payload") =>
        /\ SeqToSet(vr.out.track_value) \subseteq DeclaredNames(vr.row, vr.vlans)
        /\ SeqToSet(vr.out.track_value) \cap UndeclaredCommon = {}
        /\ \A k \in DOMAIN vr.out.track_interface :
             SeqToSet(vr.out.track_interface[k]) \cap UndeclaredCommon = {}

\* a payload tracking ge3 alone was built while every peer reports ge5 as
\* lan/wan and no input declares it
C37_Witness ==
    /\ vr.pc = "done"
    /\ vr.out.kind = "payload"
    /\ vr.out.track_value = <<"ge3">>
    /\ "ge5" \in UndeclaredCommon

\* C38: a successful refresh puts a new token in the session, the retry and
\* the first request of every later call carry the session's token of that
\* moment, and nothing else changes the token; a failed refresh leaves the
\* token and the requests sent as they were and the call returns.
C38_NewTokenFromRefreshOn ==
    /\ []((rq.sent # << >> /\ rq.pc # "retry") =>
            rq.sent[Len(rq.sent)] = rq.bearer)
    /\ [][rq.pc = "refresh" =>
            \/ /\ rq'.pc = "retry"
               /\ rq'.bearer # rq.bearer
               /\ rq'.sent = rq.sent
            \/ /\ rq'.pc = "return"
               /\ rq'.bearer = rq.bearer
               /\ rq'.sent = rq.sent
               /\ ~rq'.refreshed]_vars
    /\ [][rq.pc = "retry" =>
            (rq'.sent = Append(rq.sent, rq.bearer) /\ rq'.bearer = rq.bearer)]_vars
    /\ [][rq.pc \in {"idle", "return"} => rq'.bearer = rq.bearer]_vars
    /\ [][(rq.pc = "idle" /\ rq'.pc # "idle") => rq'.sent = <<rq.bearer>>]_vars

\* a call made after an earlier call's successful refresh went out with the
\* new token and was answered 200 at once
C38_Witness ==
    /\ rq.calls >= 1
    /\ rq.pc = "return"
    /\ rq.bearer = 2
    /\ rq.sent = <<2>>
    /\ rq.first = 200

\* line 978: the file position of the row the loop is working on
CurrentLine == Todo(csv)[idx]

\* C39 as stated: the row being processed has the post field "1", character
\* for character
C39_PostFieldExactlyOne == idx >= 1 => csv[CurrentLine] = "1"

\* C39: the rows processed are rows of the file whose post field is "1" once
\* surrounding whitespace is stripped, each stage's request belongs to such a
\* row, and with no such row the run ends with no request at all.
C39_OnlyMarkedRowsProcessed ==
    /\ idx \in 0..Len(Todo(csv))
    /\ idx >= 1 =>
         /\ CurrentLine \in 1..Len(csv)
         /\ StripPost(csv[CurrentLine]) = "1"
    /\ events # << >> => idx >= 1
    /\ (\A i \in 1..Len(csv) : StripPost(csv[i]) # "1") =>
         /\ pc \in {"start", "done"}
         /\ idx = 0
         /\ events = << >>
         /\ templates.fetches = 0

\* the second marked row of the file, written " 1 ", had its site created
\* while the rows around it, not marked, were passed over
C39_Witness ==
    /\ idx = 2
    /\ csv[CurrentLine] = " 1 "
    /\ CurrentLine = 4
    /\ csv[3] = "0"
    /\ \E a \in EventsOfKind({"create"}) : events[a].ok

============================================================================
